---- MODULE Spec2Model ----
(***************************************************************************)
(* A model of the FPS Limiter browser extension: the background            *)
(* orchestrator (src/src/background.ts), the content-script frame limiter  *)
(* (src/src/content.ts and its baseline variant src/unnamed/part_010) and  *)
(* the AI engine (src/unnamed/part_011).                                   *)
(*                                                                         *)
(* Numbers.  Frame rates are integers.  Where the code multiplies a rate   *)
(* by 0.7, 0.8 or 0.9 the model keeps the rate in thousandths (milli-fps), *)
(* which is exact for up to three such factors, and rounds as Math.round   *)
(* does.  Confidences are kept in hundredths.  Clock times, delays and     *)
(* frame intervals are integer microseconds (1000/30 ms is 33333);         *)
(* measured callback durations are integer milliseconds.                  *)
(***************************************************************************)
EXTENDS Integers, Sequences, FiniteSets, Bags, TLC

VARIABLES
    \* --- BackgroundService.getConfigForUrl called on drawn inputs ---
    cfgIn,          \* the arguments and the engine state of one call
    cfgOut,         \* the SiteConfig returned, or NoResult before the call
    cfgStats,       \* settingsCache.statistics.gamesDetected of the service
    \* --- the extension: store, background, message channel ---
    build,          \* "webpack" (background.ts) or "vite" (background.js)
    store,          \* chrome.storage.local
    settingsCache,  \* the background's settingsCache
    activeProfile,  \* BackgroundService.activeProfile: an index into
                    \* settingsCache.profiles (the object it refers to), 0 for null
    tasks,          \* the background's running async handlers
    inflight,       \* messages sent to the tab and not yet delivered
    ops,            \* user operations performed so far
    \* --- the content-script limiter of one frame of the tab ---
    lim,            \* the fields of the FPSLimiter / AdvancedFPSLimiter object
    ev,             \* the last step taken on the limiter and what it was given
    sent,           \* PAGE_IS_HEAVY messages sent since the page was loaded
    \* --- the page's event loop ---
    clock,          \* performance.now(), in microseconds
    timers,         \* bag of due times of the setTimeout callbacks pending
    rafQueue,       \* callbacks queued on the native requestAnimationFrame
    execTimes,      \* the times at which a page callback has been executed
    \* --- the tab suspender of the background process ---
    tabs,           \* the browser's tabs: what chrome.tabs.query would report
    tabLastActivated, \* BackgroundService.tabLastActivated: tab id to time, 0 if absent
    tabAnalyticsMap, \* BackgroundService.tabAnalytics: tab id to TabAnalytics
    services,       \* the AI engine and the last SystemInfo of the background
    sweep,          \* the running checkAndSuspendTabs call, or its idle state
    dateNow,        \* Date.now(), in minutes
    \* --- the storage.onChanged listeners of the background, several tabs ---
    cycles,         \* one record per listener invocation, in order of arrival
    \* --- preset cycling by the hotkey command or in the popup ---
    currentPresetIndex, \* BackgroundService.currentPresetIndex
    appliedFps,     \* the FPS value last written to the store
    presetEnv,      \* who cycles, the stored presets, the active profile
    presetLog,      \* cursor and applied FPS at the start and after each cycle
    \* --- one function returned by debounce(func, wait) ---
    debounced,      \* the closure: wait, the `timeout` variable, the next timer id
    debTimers,      \* the timers set with setTimeout and not yet fired or cleared
    debClock,       \* the time, in units of 100 ms
    debLog,         \* the calls of the wrapper and the runs of func, in order
    \* --- the release script ---
    release,        \* the running script: its position, its locals, its exit status
    repo,           \* the two version files in the working tree, the index and
                    \* HEAD, the tags, and what has been pushed
    \* --- the recommendation list of the AI engine ---
    recommendations, \* AIEngine.recommendations: id and metadata.createdAt of each
    aiEnv,          \* the engine's state and what its analyses find
    aiNow,          \* Date.now(), in units of 15 days
    aiOps,          \* calls made on the engine so far
    \* --- the learning data of the AI engine ---
    learnEngine,    \* isInitialized and settings.aiOptimization of the engine
    learnHeap,      \* the LearningData objects: history and contextual factors
    learningDataMap, \* AIEngine.learningData: domain -> object (0: no entry)
    learnStore,     \* aiLearningData in chrome.storage.local
    learnInflight,  \* processPerformanceData calls awaiting their recommendation
    learnOps,       \* performance reports made so far
    learnLast,      \* the lists before and after the last report
    \* --- the heavy-page flag ---
    flagBuild,      \* the background script that is installed
    heavyHostsStore, \* heavyHosts in chrome.storage.local
    flagMsgs,       \* the PAGE_IS_HEAVY messages and how far their handling got
    \* --- the popup asking for the AI recommendations ---
    askNow,         \* Date.now() of the recommendation request, in days
    askPopup,       \* the popup: its position, the response it got, its aiRecommendations
    askOps,         \* recommendations stored while the popup is open
    \* --- the data migration at startup ---
    migStore,       \* presets, statistics and migrationVersion in chrome.storage.local
    migCache,       \* the same three fields of BackgroundService.settingsCache
    migRun,         \* the startup: its number, its position, its writes, the store it began on
    \* --- the statistics and their debounced save ---
    statCache,      \* settingsCache.statistics.totalOptimizations
    statStore,      \* statistics.totalOptimizations in chrome.storage.local
    statTimer,      \* when the timer of debouncedSaveStatistics is due (0: none)
    statLoads,      \* the loadAndCacheSettings calls under way
    statClock,      \* the time in seconds
    statMade,       \* increments and settings changes made so far, and the stored
                    \* counter at the start
    \* --- the per-tab records and the removal of a tab ---
    goneTabs,       \* each tab: open, closed, or closed with onRemoved handled
    goneLastActivated, \* the keys of BackgroundService.tabLastActivated
    goneAnalytics,  \* the keys of BackgroundService.tabAnalytics
    goneCalls,      \* the handlers suspended at a host call
    goneEnv,        \* settingsCache.gamingMode
    goneOps,        \* events delivered so far
    \* --- the confidence formulas of the AI engine ---
    confIn,         \* the arguments of the two scoring formulas
    confOut,        \* the confidences they returned, in hundredths
    \* --- the add-site form of the popup ---
    addList,        \* EnhancedPopupManager.autoModeConfigs
    addStore,       \* autoModeConfigs in chrome.storage.local
    addLast,        \* the last submission: its input, the lists before it, what it showed
    addOps,         \* submissions made so far
    \* --- AdaptiveScheduler.notifyContentChange ---
    schScheduler,   \* the AdaptiveScheduler's flags
    schTimers,      \* due times of the pending setTimeout callbacks that reset contentChanged
    schClock,       \* the time, in units of 500 ms
    schNotified,    \* the times of the content-change notifications
    \* --- the background's reload-and-update cycle ---
    loopTabs,       \* the open tabs: URL and the game detector's answer for it
    loopSettings,   \* globalDisabled and gameDetection of the store, and whether a profile exists
    loopUnsaved,    \* gamesDetected in the settings cache minus gamesDetected in the store
    loopTimer,      \* the timer of debouncedSaveStatistics is pending
    loopCycles,     \* the storage.onChanged listeners in progress
    loopWrites,     \* store writes made by the background, counted up to MaxLoopWrites
    \* --- the toggle_fps_limiter command ---
    togStore,       \* the store's globalDisabled key: empty when absent, else its one value
    togCache,       \* settingsCache.globalDisabled
    togNotifications, \* settingsCache.notifications.enabled
    togHandlers,    \* handleKeyboardShortcut calls waiting at storage.local.set, each with its newState
    togReloads,     \* runs of the storage.onChanged listener in loadAndCacheSettings
    togShown,       \* the messages of the notifications shown
    togHandled,     \* the number of toggle commands handled
    togOrig         \* the flag's value before the first command

cfgVars == <<cfgIn, cfgOut, cfgStats>>

extVars == <<build, store, settingsCache, activeProfile, tasks, inflight, ops>>

limVars == <<lim, ev, sent>>

rafVars == <<clock, timers, rafQueue, execTimes>>

susVars == <<tabs, tabLastActivated, tabAnalyticsMap, services, sweep, dateNow>>

cycVars == <<cycles>>

preVars == <<currentPresetIndex, appliedFps, presetEnv, presetLog>>

debVars == <<debounced, debTimers, debClock, debLog>>

relVars == <<release, repo>>

aiVars == <<recommendations, aiEnv, aiNow, aiOps>>

learnVars == <<learnEngine, learnHeap, learningDataMap, learnStore, learnInflight, learnOps, learnLast>>

flagVars == <<flagBuild, heavyHostsStore, flagMsgs>>

askVars == <<askNow, askPopup, askOps>>

migVars == <<migStore, migCache, migRun>>

statVars == <<statCache, statStore, statTimer, statLoads, statClock, statMade>>

goneVars == <<goneTabs, goneLastActivated, goneAnalytics, goneCalls, goneEnv, goneOps>>

confVars == <<confIn, confOut>>

addVars == <<addList, addStore, addLast, addOps>>

schVars == <<schScheduler, schTimers, schClock, schNotified>>

loopVars == <<loopTabs, loopSettings, loopUnsaved, loopTimer, loopCycles, loopWrites>>

togVars == <<togStore, togCache, togNotifications, togHandlers, togReloads, togShown, togHandled, togOrig>>

moreVars == <<learnVars, flagVars, askVars, migVars, statVars, goneVars, confVars, addVars, schVars, loopVars, togVars>>

laterVars == <<cycVars, preVars, debVars, relVars, aiVars, moreVars>>

\* the later groups other than the one named
cycOthers == <<preVars, debVars, relVars, aiVars, moreVars>>

preOthers == <<cycVars, debVars, relVars, aiVars, moreVars>>

debOthers == <<cycVars, preVars, relVars, aiVars, moreVars>>

relOthers == <<cycVars, preVars, debVars, aiVars, moreVars>>

aiOthers == <<cycVars, preVars, debVars, relVars, moreVars>>

learnOthers == <<cycVars, preVars, debVars, relVars, aiEnv, aiNow, aiOps, flagVars, askVars, migVars, statVars, goneVars, confVars, addVars, schVars, loopVars, togVars>>

flagOthers == <<cycVars, preVars, debVars, relVars, aiVars, learnVars, askVars, migVars, statVars, goneVars, confVars, addVars, schVars, loopVars, togVars>>

askOthers == <<cycVars, preVars, debVars, relVars, aiEnv, aiNow, aiOps, learnVars, flagVars, migVars, statVars, goneVars, confVars, addVars, schVars, loopVars, togVars>>

migOthers == <<cycVars, preVars, debVars, relVars, aiVars, learnVars, flagVars, askVars, statVars, goneVars, confVars, addVars, schVars, loopVars, togVars>>

statOthers == <<cycVars, preVars, debVars, relVars, aiVars, learnVars, flagVars, askVars, migVars, goneVars, confVars, addVars, schVars, loopVars, togVars>>

goneOthers == <<cycVars, preVars, debVars, relVars, aiVars, learnVars, flagVars, askVars, migVars, statVars, confVars, addVars, schVars, loopVars, togVars>>

confOthers == <<cycVars, preVars, debVars, relVars, aiVars, learnVars, flagVars, askVars, migVars, statVars, goneVars, addVars, schVars, loopVars, togVars>>

addOthers == <<cycVars, preVars, debVars, relVars, aiVars, learnVars, flagVars, askVars, migVars, statVars, goneVars, confVars, schVars, loopVars, togVars>>

schOthers == <<cycVars, preVars, debVars, relVars, aiVars, learnVars, flagVars, askVars, migVars, statVars, goneVars, confVars, addVars, loopVars, togVars>>

loopOthers == <<cycVars, preVars, debVars, relVars, aiVars, learnVars, flagVars, askVars, migVars, statVars, goneVars, confVars, addVars, schVars, togVars>>

togOthers == <<cycVars, preVars, debVars, relVars, aiVars, learnVars, flagVars, askVars, migVars, statVars, goneVars, confVars, addVars, schVars, loopVars>>

auxVars == <<susVars, laterVars>>

vars == <<cfgIn, cfgOut, cfgStats, build, store, settingsCache, activeProfile, tasks,
          inflight, ops, lim, ev, sent, clock, timers, rafQueue, execTimes,
          tabs, tabLastActivated, tabAnalyticsMap, services, sweep, dateNow,
          cycles, currentPresetIndex, appliedFps, presetEnv, presetLog,
          debounced, debTimers, debClock, debLog, release, repo,
          recommendations, aiEnv, aiNow, aiOps,
          learnEngine, learnHeap, learningDataMap, learnStore, learnInflight, learnOps,
          learnLast,
          flagBuild, heavyHostsStore, flagMsgs,
          askNow, askPopup, askOps,
          migStore, migCache, migRun,
          statCache, statStore, statTimer, statLoads, statClock, statMade,
          goneTabs, goneLastActivated, goneAnalytics, goneCalls, goneEnv, goneOps,
          confIn, confOut,
          addList, addStore, addLast, addOps,
          schScheduler, schTimers, schClock, schNotified,
          loopTabs, loopSettings, loopUnsaved, loopTimer, loopCycles, loopWrites,
          togStore, togCache, togNotifications, togHandlers, togReloads, togShown, togHandled, togOrig>>

(***************************************************************************)
(* Strings.  TLC treats a string as a sequence of characters for Len,      *)
(* SubSeq and \o, which is enough for String.prototype.includes,           *)
(* indexOf, replace and parseInt.                                          *)
(***************************************************************************)
Min(a, b) == IF a < b THEN a ELSE b

Max(a, b) == IF a > b THEN a ELSE b

\* String.prototype.includes
Includes(h, d) ==
    \E i \in 1..(Len(h) - Len(d) + 1) : SubSeq(h, i, i + Len(d) - 1) = d

\* String.prototype.indexOf, 1-based, 0 when absent
IndexOf(h, d) ==
    IF Includes(h, d)
    THEN CHOOSE i \in 1..(Len(h) - Len(d) + 1) :
            /\ SubSeq(h, i, i + Len(d) - 1) = d
            /\ \A j \in 1..(i - 1) : SubSeq(h, j, j + Len(d) - 1) # d
    ELSE 0

StartsWith(h, p) == Len(h) >= Len(p) /\ SubSeq(h, 1, Len(p)) = p

\* s without its character at index i, s itself when i is 0
RemoveAt(s, i) ==
    IF i = 0 THEN s ELSE SubSeq(s, 1, i - 1) \o SubSeq(s, i + 1, Len(s))

\* s.replace(':', ''): the first occurrence only
ReplaceColon(s) == RemoveAt(s, IndexOf(s, ":"))

Digits == <<"0", "1", "2", "3", "4", "5", "6", "7", "8", "9">>

IsDigit(c) == \E k \in 1..10 : Digits[k] = c

DigitVal(c) == (CHOOSE k \in 1..10 : Digits[k] = c) - 1

NaN == -1

RECURSIVE ParseDigits(_, _, _)
ParseDigits(s, i, acc) ==
    IF i > Len(s) \/ ~IsDigit(SubSeq(s, i, i))
    THEN acc
    ELSE ParseDigits(s, i + 1, acc * 10 + DigitVal(SubSeq(s, i, i)))

\* parseInt on an unsigned decimal string: the leading digits, NaN if none
ParseInt(s) ==
    IF Len(s) = 0 \/ ~IsDigit(SubSeq(s, 1, 1)) THEN NaN ELSE ParseDigits(s, 1, 0)

(***************************************************************************)
(* new URL(url).hostname for the http(s) URLs of the model: the characters *)
(* between "://" and the next "/", and a TypeError when the scheme is      *)
(* missing or the host is empty.                                           *)
(***************************************************************************)
\* the characters of s from index i + skip on, "" when i is 0
From(s, i, skip) == IF i = 0 THEN "" ELSE SubSeq(s, i + skip, Len(s))

\* the characters of s before index j, s itself when j is 0
Before(s, j) == IF j = 0 THEN s ELSE SubSeq(s, 1, j - 1)

AfterScheme(url) == From(url, IndexOf(url, "://"), 3)

UpToSlash(rest) == Before(rest, IndexOf(rest, "/"))

Hostname(url) == UpToSlash(AfterScheme(url))

UrlParses(url) ==
    /\ StartsWith(url, "http://") \/ StartsWith(url, "https://")
    /\ Len(Hostname(url)) > 0

(***************************************************************************)
(* Optional inputs.  An absent PerformanceMetrics, TabAnalytics or         *)
(* SystemInfo argument is a record with present = FALSE.                   *)
(***************************************************************************)
NoPerf == [present |-> FALSE, cpuUsage |-> 0, jankFrames |-> 0, averageFps |-> 0]

NoAnalytics == [present |-> FALSE, classType |-> "unknown", classConf |-> 0, title |-> ""]

NoSystem ==
    [present |-> FALSE, hasBattery |-> FALSE, batteryLevel |-> 0, cpuUsage |-> 0,
     thermal |-> "normal", hasNetwork |-> FALSE, netType |-> "unknown"]

\* Math.round of a non-negative value held in thousandths
RoundMilli(m) == (m + 500) \div 1000

\* Math.round of the non-negative rational n / d
RoundRat(n, d) == (2 * n + d) \div (2 * d)

(***************************************************************************)
(* AIEngine (src/unnamed/part_011).  The engine state read by the          *)
(* recommendation is ai = [initialized, aiOptimization, learning], where   *)
(* learning is the set of LearningData records, one per domain.            *)
(***************************************************************************)
gamingDomains ==
    <<"steam", "itch.io", "kongregate", "miniclip", "newgrounds", "armor games",
      "krunker.io", "agar.io", "slither.io", "diep.io">>

videoDomains == <<"youtube", "netflix", "twitch", "vimeo", "dailymotion", "hulu">>

socialDomains == <<"facebook", "twitter", "instagram", "linkedin", "reddit", "tiktok">>

isGamingDomain(domain) ==
    \E k \in 1..Len(gamingDomains) : Includes(domain, gamingDomains[k])

isVideoDomain(domain) ==
    \E k \in 1..Len(videoDomains) : Includes(domain, videoDomains[k])

isSocialDomain(domain) ==
    \E k \in 1..Len(socialDomains) : Includes(domain, socialDomains[k])

isReady(ai) == ai.initialized /\ ai.aiOptimization

\* the thermalMultiplier table, in tenths; `|| 1` for any other state
thermalTenths(state) ==
    CASE state = "fair" -> 9
      [] state = "serious" -> 7
      [] state = "critical" -> 5
      [] OTHER -> 10

\* the base rate of a domain, in thousandths, and the confidence it adds
heuristicBaseFps(domain) ==
    CASE isGamingDomain(domain) -> 144000
      [] isVideoDomain(domain) -> 60000
      [] isSocialDomain(domain) -> 30000
      [] OTHER -> 60000

heuristicBaseConfidence(domain) ==
    CASE isGamingDomain(domain) -> 50 + 20
      [] isVideoDomain(domain) -> 50 + 10
      [] isSocialDomain(domain) -> 50 + 10
      [] OTHER -> 50

\* Math.max(floor, v * tenths / 10) when cond holds
ScaledDown(v, cond, floor, tenths) ==
    IF cond THEN Max(floor, (v * tenths) \div 10) ELSE v

CappedAt(v, cond, cap) == IF cond THEN Min(v, cap) ELSE v

RaisedTo(v, cond, floor) == IF cond THEN Max(v, floor) ELSE v

\* the adjustments of getHeuristicRecommendation to the base rate b0 and
\* the base confidence c0
heuristicAdjusted(b0, c0, lowBattery, isGame, performanceData, systemInfo) ==
    [present |-> TRUE,
     fps |-> RoundMilli(
        RaisedTo(
          ScaledDown(
            CappedAt(
              ScaledDown(
                ScaledDown(b0, performanceData.present /\ performanceData.cpuUsage > 80,
                           30000, 7),
                performanceData.present /\ performanceData.jankFrames > 10, 30000, 8),
              lowBattery, 30000),
            systemInfo.present /\ systemInfo.thermal # "normal", 15000,
            thermalTenths(systemInfo.thermal)),
          isGame, 120000)),
     confidence |-> Min(100, c0 + (IF lowBattery THEN 10 ELSE 0)
                                + (IF isGame THEN 20 ELSE 0))]

heuristicForDomain(domain, tabAnalytics, performanceData, systemInfo) ==
    heuristicAdjusted(heuristicBaseFps(domain), heuristicBaseConfidence(domain),
                      /\ systemInfo.present
                      /\ systemInfo.hasBattery
                      /\ systemInfo.batteryLevel < 20,
                      tabAnalytics.present /\ tabAnalytics.classType = "game",
                      performanceData, systemInfo)

\* getHeuristicRecommendation: [fps, confidence (hundredths)]
getHeuristicRecommendation(url, tabAnalytics, performanceData, systemInfo) ==
    IF ~UrlParses(url)
    THEN [present |-> TRUE, fps |-> 60, confidence |-> 30]
    ELSE heuristicForDomain(Hostname(url), tabAnalytics, performanceData, systemInfo)

hasLearning(ai, domain) == \E l \in ai.learning : l.domain = domain

learningFor(ai, domain) == CHOOSE l \in ai.learning : l.domain = domain

RECURSIVE SumOver(_, _)
SumOver(f, S) ==
    IF S = {} THEN 0
    ELSE LET x == CHOOSE y \in S : TRUE IN f[x] + SumOver(f, S \ {x})

RECURSIVE Pow(_, _)
Pow(b, e) == IF e = 0 THEN 1 ELSE b * Pow(b, e - 1)

\* calculateContextualScore as the rational <<numerator, denominator>>
calculateContextualScore(learningData, systemInfo, hour) ==
    LET currentBattery ==
            IF systemInfo.present /\ systemInfo.hasBattery /\ systemInfo.batteryLevel # 0
            THEN systemInfo.batteryLevel ELSE 100
        currentCpu == IF systemInfo.present THEN systemInfo.cpuUsage ELSE 0
        abs(x) == IF x < 0 THEN -x ELSE x
        factors == learningData.contextualFactors
        similar == {i \in 1..Len(factors) :
                        /\ abs(factors[i].timeOfDay - hour) <= 2
                        /\ abs(factors[i].batteryLevel - currentBattery) <= 20
                        /\ abs(factors[i].cpuUsage - currentCpu) <= 20}
        prefs == learningData.fpsSettings
        pref == [i \in 1..Len(factors) |->
                    IF i <= Len(prefs) /\ prefs[i] # 0 THEN prefs[i] ELSE 60]
    IN  IF similar = {} THEN <<60, 1>>
        ELSE <<SumOver(pref, similar), Cardinality(similar)>>

\* calculatePerformanceScore, in tenths of a frame per second
calculatePerformanceScore(learningData, currentPerformance) ==
    LET hist == learningData.performanceHistory
        n == Len(hist)
        recent == IF n > 10 THEN SubSeq(hist, n - 9, n) ELSE hist
        idx == 1..Len(recent)
        sumJank == SumOver([i \in idx |-> recent[i].jankFrames], idx)
        sumCpu == SumOver([i \in idx |-> recent[i].cpuUsage], idx)
        r1 == IF sumJank > 10 * Len(recent) THEN Max(300, (600 * 8) \div 10) ELSE 600
        r2 == IF sumCpu > 70 * Len(recent) THEN Max(300, (r1 * 7) \div 10) ELSE r1
    IN  IF ~currentPerformance.present \/ n = 0 THEN 600 ELSE r2

\* calculateUserPreferenceScore as <<numerator, denominator>>: the weights
\* 0.9^(n-1-i) are scaled by 10^(n-1)
calculateUserPreferenceScore(learningData) ==
    LET fps == learningData.fpsSettings
        n == Len(fps)
        idx == 1..n
        w == [i \in idx |-> Pow(9, n - i) * Pow(10, i - 1)]
    IN  IF n = 0 THEN <<60, 1>>
        ELSE <<SumOver([i \in idx |-> fps[i] * w[i]], idx), SumOver(w, idx)>>

\* calculateConfidence, in hundredths
\* calculateConfidence without the `Math.min(1, confidence)` of line 752
calculateConfidence_Uncapped(learningData, tabAnalytics) ==
    30 + Min(40, Len(learningData.performanceHistory) * 2)
       + Min(20, Len(learningData.fpsSettings) * 5)
       + (IF tabAnalytics.present THEN 10 ELSE 0)
       + (IF tabAnalytics.present /\ tabAnalytics.classConf > 80 THEN 10 ELSE 0)

calculateConfidence(learningData, tabAnalytics) ==
    LET c1 == 30 + Min(40, Len(learningData.performanceHistory) * 2)
        c2 == c1 + Min(20, Len(learningData.fpsSettings) * 5)
        c3 == IF tabAnalytics.present THEN c2 + 10 ELSE c2
        c4 == IF tabAnalytics.present /\ tabAnalytics.classConf > 80 THEN c3 + 10 ELSE c3
    IN  Min(100, c4)

\* getOptimalFps: the suggestion, or present = FALSE for null
NoSuggestion == [present |-> FALSE, fps |-> 0, confidence |-> 0]

\* 0.4 c + 0.4 p + 0.2 u, rounded and clamped to 15..240; c and u are
\* rationals <<numerator, denominator>>, p is in tenths
weightedRecommendation(c, p, u, confidence) ==
    [present |-> TRUE,
     fps |-> Max(15, Min(240,
                RoundRat(4 * c[1] * 10 * u[2] + 4 * p * c[2] * u[2]
                            + 2 * u[1] * c[2] * 10,
                         10 * c[2] * 10 * u[2]))),
     confidence |-> confidence]

\* the recommendation from the LearningData of the domain
learnedRecommendation(ld, tabAnalytics, performanceData, systemInfo, hour) ==
    weightedRecommendation(calculateContextualScore(ld, systemInfo, hour),
                           calculatePerformanceScore(ld, performanceData),
                           calculateUserPreferenceScore(ld),
                           calculateConfidence(ld, tabAnalytics))

getOptimalFps(ai, url, tabAnalytics, performanceData, systemInfo, hour) ==
    IF ~isReady(ai) \/ ~UrlParses(url) THEN NoSuggestion
    ELSE IF ~hasLearning(ai, Hostname(url))
    THEN getHeuristicRecommendation(url, tabAnalytics, performanceData, systemInfo)
    ELSE learnedRecommendation(learningFor(ai, Hostname(url)), tabAnalytics,
                               performanceData, systemInfo, hour)

(***************************************************************************)
(* The three services whose source is not in the tree: GameDetector,       *)
(* PowerManager and PerformanceMonitor (imported by background.ts lines    *)
(* 16-19).  They are modelled from the specification, sections 4.2, 4.5,   *)
(* 4.8 (step 6) and 4.3.                                                   *)
(***************************************************************************)
gameKeywords ==
    <<"game", "play", "player", "level", "score", "fps", "rpg", "mmorpg", "battle">>

EndsWith(h, sfx) == Len(h) >= Len(sfx) /\ SubSeq(h, Len(h) - Len(sfx) + 1, Len(h)) = sfx

NoGame == [isGame |-> FALSE, confidence |-> 0, gameType |-> "unknown", recommendedFps |-> 60]

\* the confidence, in hundredths: a known gaming domain, the keywords
\* found in the title or the host, a game-like pattern
gameScore(url, host, title) ==
    (IF isGamingDomain(host) THEN 40 ELSE 0)
    + 10 * Cardinality({k \in 1..Len(gameKeywords) :
                Includes(title, gameKeywords[k]) \/ Includes(host, gameKeywords[k])})
    + (IF \/ Includes(url, "game") \/ Includes(title, "game")
          \/ Includes(url, "play") \/ Includes(title, "play")
          \/ EndsWith(host, ".io") \/ EndsWith(title, ".io")
       THEN 20 ELSE 0)

gameTypeFor(score, title) ==
    CASE Includes(title, "fps") \/ Includes(title, "shooter") -> "fps"
      [] Includes(title, "moba") \/ Includes(title, "dota") \/ Includes(title, "lol")
            -> "moba"
      [] Includes(title, "strategy") \/ Includes(title, "rts") -> "strategy"
      [] OTHER -> IF score < 30 THEN "casual" ELSE "unknown"

gameFpsFor(gameType) ==
    CASE gameType = "fps" -> 144
      [] gameType = "moba" -> 120
      [] OTHER -> 60

gameResult(score, gameType) ==
    [isGame |-> score > 30, confidence |-> Min(100, score), gameType |-> gameType,
     recommendedFps |-> gameFpsFor(gameType)]

gameScored(score, title) == gameResult(score, gameTypeFor(score, title))

\* GameDetector.analyzeUrl (section 4.2)
analyzeUrl(url, tabAnalytics) ==
    IF ~UrlParses(url) THEN NoGame
    ELSE gameScored(gameScore(url, Hostname(url), tabAnalytics.title),
                    tabAnalytics.title)

\* the scale applied under high CPU, in tenths: the specification says only
\* "scale down"; the model takes the factor the AI engine uses for high CPU
cpuScaleTenths == 7

\* the value after the three reductions, in thousandths
optimizedValue(value, lowBattery, highCpu, hot, thermal) ==
    ScaledDown(ScaledDown(CappedAt(value * 1000, lowBattery, 30000),
                          highCpu, 0, cpuScaleTenths),
               hot, 0, thermalTenths(thermal))

optimizedConfig(baseConfig, lowBattery, highCpu, hot, thermal) ==
    IF lowBattery \/ highCpu \/ hot
    THEN [baseConfig EXCEPT
            !.value = RoundMilli(optimizedValue(baseConfig.value, lowBattery, highCpu,
                                                hot, thermal)),
            !.priority = "battery"]
    ELSE baseConfig

\* PowerManager.optimizeConfig (sections 4.5 and 4.8 step 6)
optimizeConfig(baseConfig, performanceData, systemInfo, sCache) ==
    optimizedConfig(baseConfig,
                    /\ sCache.batteryOptimization
                    /\ systemInfo.present /\ systemInfo.hasBattery
                    /\ systemInfo.batteryLevel < 20,
                    /\ performanceData.present
                    /\ performanceData.cpuUsage > sCache.maxCpuUsage,
                    /\ sCache.thermalProtection
                    /\ systemInfo.present /\ systemInfo.thermal # "normal",
                    systemInfo.thermal)

\* PerformanceMonitor.adaptConfig (section 4.3): lowers the rate under high
\* jank or a low measured average, never raises it.  The specification gives
\* no numbers; the model takes the AI engine's (more than 10 jank frames or
\* an average under 30 fps, times 0.8, floor 30).
adaptConfig(baseConfig, performanceData, tabAnalytics) ==
    IF performanceData.jankFrames > 10 \/ performanceData.averageFps < 30
    THEN [baseConfig EXCEPT
            !.value = Min(baseConfig.value, Max(30, (baseConfig.value * 8) \div 10))]
    ELSE baseConfig

(***************************************************************************)
(* BackgroundService.getConfigForUrl (src/src/background.ts 248-395).      *)
(*                                                                         *)
(* A SiteConfig is [enabled, value, adaptive, priority].  An absent        *)
(* `adaptive` is FALSE (every reader tests it for truthiness) and an       *)
(* absent `priority` is "none".  sCache.aiOptimization is "on", "off" or   *)
(* "unset", because line 366 reads it with `?? true`; the other flags of   *)
(* the settings cache are only tested for truthiness.                      *)
(***************************************************************************)
fallbackConfig ==
    [enabled |-> TRUE, value |-> 60, adaptive |-> TRUE, priority |-> "balanced"]

NoProfile ==
    [present |-> FALSE, id |-> "", hasGlobalConfig |-> FALSE,
     globalConfig |-> fallbackConfig, autoModeConfigs |-> <<>>]

NoConditions ==
    [has |-> FALSE, batteryLevel |-> 0, cpuUsage |-> 0, hasTimeRange |-> FALSE,
     start |-> "", end |-> "", hasNetworkType |-> FALSE, networkType |-> {}]

\* the predicate of autoModeConfigs.find (lines 317-359); hhmm is
\* now.getHours() * 100 + now.getMinutes()
autoModeRuleApplies(config, host, performanceData, systemInfo, hhmm) ==
    /\ Includes(host, config.domain)
    /\ \/ ~config.conditions.has
       \/ LET c == config.conditions
              startTime == ParseInt(ReplaceColon(c.start))
              endTime == ParseInt(ReplaceColon(c.end))
          IN  /\ ~ (/\ c.batteryLevel # 0
                    /\ systemInfo.present /\ systemInfo.hasBattery
                    /\ systemInfo.batteryLevel < c.batteryLevel)
              /\ ~ (/\ c.cpuUsage # 0
                    /\ performanceData.present /\ performanceData.cpuUsage # 0
                    /\ performanceData.cpuUsage > c.cpuUsage)
              /\ ~ (/\ c.hasTimeRange
                    /\ \/ (startTime # NaN /\ hhmm < startTime)
                       \/ (endTime # NaN /\ hhmm > endTime))
              /\ ~ (/\ c.hasNetworkType
                    /\ systemInfo.present /\ systemInfo.hasNetwork
                    /\ systemInfo.netType \notin c.networkType)

\* the least and the greatest index of a set of indices, 0 for the empty set
LeastOrZero(S) == IF S = {} THEN 0 ELSE CHOOSE i \in S : \A j \in S : i <= j

GreatestOrZero(S) == IF S = {} THEN 0 ELSE CHOOSE i \in S : \A j \in S : i >= j

\* the search returning the last rule that applies instead of the first
findAutoConfig_Last(configs, host, performanceData, systemInfo, hhmm) ==
    GreatestOrZero({i \in 1..Len(configs) :
        autoModeRuleApplies(configs[i], host, performanceData, systemInfo, hhmm)})

\* the search taking the first rule whose domain matches, conditions ignored
findAutoConfig_DomainOnly(configs, host, performanceData, systemInfo, hhmm) ==
    LeastOrZero({i \in 1..Len(configs) : Includes(host, configs[i].domain)})

\* Array.prototype.find: the index of the first rule that applies, 0 if none
findAutoConfig(configs, host, performanceData, systemInfo, hhmm) ==
    LeastOrZero({i \in 1..Len(configs) :
        autoModeRuleApplies(configs[i], host, performanceData, systemInfo, hhmm)})

Truthy(flag) == flag = "on"

\* `flag ?? true`
NullishTrue(flag) == flag # "off"

\* lines 276-286: the AI suggestion, when it is taken
takeSuggestion(baseConfig, aiSuggestion) ==
    IF aiSuggestion.present /\ aiSuggestion.confidence > 70
    THEN [baseConfig EXCEPT !.value = aiSuggestion.fps]
    ELSE baseConfig

aiStep(baseConfig, url, sCache, performanceData, tabAnalytics, systemInfo, ai, hhmm) ==
    takeSuggestion(baseConfig,
                   IF Truthy(sCache.aiOptimization) /\ isReady(ai)
                   THEN getOptimalFps(ai, url, tabAnalytics, performanceData,
                                      systemInfo, hhmm \div 100)
                   ELSE NoSuggestion)

\* lines 289-291: the game detector reports a game with confidence over 0.7
isConfidentGame(gameInfo) == gameInfo.isGame /\ gameInfo.confidence > 70

gameDetectedFor(url, sCache, tabAnalytics) ==
    /\ sCache.gameDetection \/ sCache.gamingMode
    /\ UrlParses(url)
    /\ isConfidentGame(analyzeUrl(url, tabAnalytics))

\* lines 292-297
applyGame(baseConfig, gameInfo) ==
    IF isConfidentGame(gameInfo)
    THEN [baseConfig EXCEPT !.value = gameInfo.recommendedFps,
                            !.priority = "performance", !.adaptive = TRUE]
    ELSE baseConfig

\* lines 289-297
gameStep(baseConfig, url, sCache, tabAnalytics) ==
    IF (sCache.gameDetection \/ sCache.gamingMode) /\ UrlParses(url)
    THEN applyGame(baseConfig, analyzeUrl(url, tabAnalytics))
    ELSE baseConfig

\* lines 307-314
backgroundAudioConfig ==
    [enabled |-> TRUE, value |-> 5, adaptive |-> FALSE, priority |-> "battery"]

\* lines 316-368
applyAutoConfig(baseConfig, profile, sCache, i) ==
    IF i # 0
    THEN [enabled |-> TRUE, value |-> profile.autoModeConfigs[i].fps,
          adaptive |-> NullishTrue(sCache.aiOptimization), priority |-> "balanced"]
    ELSE baseConfig

autoModeStep(baseConfig, host, profile, sCache, performanceData, systemInfo, hhmm) ==
    IF sCache.autoModeMasterEnable
    THEN applyAutoConfig(baseConfig, profile, sCache,
                         findAutoConfig(profile.autoModeConfigs, host, performanceData,
                                        systemInfo, hhmm))
    ELSE baseConfig

\* lines 371-379
powerStep(baseConfig, sCache, performanceData, systemInfo) ==
    IF sCache.batteryOptimization \/ sCache.thermalProtection
    THEN optimizeConfig(baseConfig, performanceData, systemInfo, sCache)
    ELSE baseConfig

\* lines 381-388
adaptiveStep(baseConfig, performanceData, tabAnalytics) ==
    IF baseConfig.adaptive /\ performanceData.present
    THEN adaptConfig(baseConfig, performanceData, tabAnalytics)
    ELSE baseConfig

\* line 265, with the guard lacking the globalDisabled test
returnsFallback_ProfileOnly(sCache, profile) == ~profile.present

\* line 265: the guard of the early return
returnsFallback(sCache, profile) == sCache.globalDisabled \/ ~profile.present

\* line 270, ignoring the profile's own configuration
profileBaseConfig_AlwaysFallback(profile) == fallbackConfig

\* line 270: profileSettings.globalConfig || fallbackConfig
profileBaseConfig(profile) ==
    IF profile.hasGlobalConfig THEN profile.globalConfig ELSE fallbackConfig

\* line 307, with the negation of tabIsActive lost
isBackgroundAudio_ActiveTab(tabIsActive, tabIsAudible) == tabIsActive /\ tabIsAudible

\* line 307: a tab that is not active and is audible
isBackgroundAudio(tabIsActive, tabIsAudible) == ~tabIsActive /\ tabIsAudible

\* the catch block returning the fallback instead of the working value
catchReturn_Fallback(baseConfig) == fallbackConfig

\* lines 390-393: `catch (error) { console.error(...); return baseConfig; }`
catchReturn(baseConfig) == baseConfig

\* lines 276-388: the steps after the profile's base configuration
configFromBase(base0, url, tabIsActive, tabIsAudible, profile, sCache, performanceData, tabAnalytics, systemInfo, ai, hhmm) ==
    IF ~UrlParses(url) THEN catchReturn(base0)    \* new URL throws (line 273)
    ELSE IF sCache.autoModeMasterEnable /\ isBackgroundAudio(tabIsActive, tabIsAudible)
    THEN backgroundAudioConfig
    ELSE adaptiveStep(
            powerStep(
                autoModeStep(
                    gameStep(
                        aiStep(base0, url, sCache, performanceData, tabAnalytics,
                               systemInfo, ai, hhmm),
                        url, sCache, tabAnalytics),
                    Hostname(url), profile, sCache, performanceData, systemInfo, hhmm),
                sCache, performanceData, systemInfo),
            performanceData, tabAnalytics)

getConfigForUrl(url, tabIsActive, tabIsAudible, profile, sCache, performanceData, tabAnalytics, systemInfo, ai, hhmm) ==
    IF returnsFallback(sCache, profile)
    THEN [fallbackConfig EXCEPT !.enabled = ~sCache.globalDisabled]
    ELSE configFromBase(profileBaseConfig(profile), url, tabIsActive, tabIsAudible,
                        profile, sCache, performanceData, tabAnalytics, systemInfo,
                        ai, hhmm)

\* the steps a service call of which may throw: the game detector (line
\* 290), the power manager (line 373), the performance monitor (line 383)
FailSteps == {"none", "game", "power", "adapt"}

\* lines 258-394 with the service call of step `failAt` throwing when that
\* step is run: the statements of the try block up to the call have run,
\* the assignment of its result to baseConfig has not, and the catch block
\* returns baseConfig
getConfigForUrlFailing(url, tabIsActive, tabIsAudible, profile, sCache, performanceData, tabAnalytics, systemInfo, ai, hhmm, failAt) ==
    IF returnsFallback(sCache, profile)
    THEN [fallbackConfig EXCEPT !.enabled = ~sCache.globalDisabled]
    ELSE IF ~UrlParses(url) THEN catchReturn(profileBaseConfig(profile))
    ELSE LET afterAi == aiStep(profileBaseConfig(profile), url, sCache, performanceData,
                               tabAnalytics, systemInfo, ai, hhmm)
         IN  IF failAt = "game" /\ (sCache.gameDetection \/ sCache.gamingMode)
             THEN catchReturn(afterAi)
             ELSE IF sCache.autoModeMasterEnable /\ isBackgroundAudio(tabIsActive, tabIsAudible)
             THEN backgroundAudioConfig
             ELSE LET afterRules == autoModeStep(gameStep(afterAi, url, sCache, tabAnalytics),
                                                 Hostname(url), profile, sCache,
                                                 performanceData, systemInfo, hhmm)
                  IN  IF failAt = "power" /\ (sCache.batteryOptimization \/ sCache.thermalProtection)
                      THEN catchReturn(afterRules)
                      ELSE LET afterPower == powerStep(afterRules, sCache, performanceData,
                                                       systemInfo)
                           IN  IF failAt = "adapt" /\ afterPower.adaptive /\ performanceData.present
                               THEN catchReturn(afterPower)
                               ELSE adaptiveStep(afterPower, performanceData, tabAnalytics)

(***************************************************************************)
(* getConfigForUrl on drawn inputs.  The profiles are the fixture of the   *)
(* repository's test (src/unnamed/part_005) and one with conditional and   *)
(* overlapping rules; the URLs are the test's three, a gaming host and one *)
(* that does not parse.                                                    *)
(***************************************************************************)
CfgUrls ==
    {"https://game.com/play", "https://normal-website.com",
     "http://googleusercontent.com/youtube.com/5",
     "https://play.steamgames.io/fps", "http://"}

FixtureProfile ==
    [present |-> TRUE, id |-> "1", hasGlobalConfig |-> TRUE,
     globalConfig |-> [enabled |-> TRUE, value |-> 60, adaptive |-> FALSE,
                       priority |-> "none"],
     autoModeConfigs |-> <<[domain |-> "game.com", fps |-> 144,
                            conditions |-> NoConditions]>>]

CondProfile ==
    [present |-> TRUE, id |-> "2", hasGlobalConfig |-> TRUE,
     globalConfig |-> [enabled |-> FALSE, value |-> 45, adaptive |-> TRUE,
                       priority |-> "balanced"],
     autoModeConfigs |->
        <<[domain |-> "game", fps |-> 30,
           conditions |-> [NoConditions EXCEPT !.has = TRUE, !.batteryLevel = 50,
                              !.hasTimeRange = TRUE, !.start = "08:00", !.end = "22:00"]],
          [domain |-> "game.com", fps |-> 120, conditions |-> NoConditions],
          [domain |-> "steam", fps |-> 90,
           conditions |-> [NoConditions EXCEPT !.has = TRUE, !.cpuUsage = 50,
                              !.hasNetworkType = TRUE, !.networkType = {"4g"}]]>>]

CfgProfiles == {NoProfile, FixtureProfile, CondProfile}

CfgSettings ==
    [globalDisabled : BOOLEAN, autoModeMasterEnable : BOOLEAN,
     aiOptimization : {"on", "off", "unset"}, gameDetection : BOOLEAN,
     gamingMode : {FALSE}, batteryOptimization : BOOLEAN,
     thermalProtection : {FALSE}, maxCpuUsage : {80}]
    \cup
    [globalDisabled : {FALSE}, autoModeMasterEnable : {TRUE},
     aiOptimization : {"off"}, gameDetection : {FALSE},
     gamingMode : BOOLEAN, batteryOptimization : {FALSE},
     thermalProtection : {TRUE}, maxCpuUsage : {80}]

BusyPerf == [present |-> TRUE, cpuUsage |-> 90, jankFrames |-> 12, averageFps |-> 25]

CfgPerf == {NoPerf, BusyPerf}

GameAnalytics ==
    [present |-> TRUE, classType |-> "game", classConf |-> 90, title |-> "fps shooter"]

CfgAnalytics == {NoAnalytics, GameAnalytics}

LowBatterySystem ==
    [present |-> TRUE, hasBattery |-> TRUE, batteryLevel |-> 15, cpuUsage |-> 30,
     thermal |-> "normal", hasNetwork |-> TRUE, netType |-> "4g"]

HotSystem ==
    [present |-> TRUE, hasBattery |-> TRUE, batteryLevel |-> 80, cpuUsage |-> 30,
     thermal |-> "serious", hasNetwork |-> TRUE, netType |-> "3g"]

CfgSystems == {NoSystem, LowBatterySystem, HotSystem}

GameComLearning ==
    [domain |-> "game.com", fpsSettings |-> <<120, 144, 144>>,
     performanceHistory |-> <<[jankFrames |-> 2, cpuUsage |-> 40],
                              [jankFrames |-> 14, cpuUsage |-> 85],
                              [jankFrames |-> 20, cpuUsage |-> 90]>>,
     contextualFactors |-> <<[timeOfDay |-> 9, batteryLevel |-> 90, cpuUsage |-> 20],
                             [timeOfDay |-> 10, batteryLevel |-> 85, cpuUsage |-> 35],
                             [timeOfDay |-> 21, batteryLevel |-> 20, cpuUsage |-> 30]>>]

CfgEngines ==
    {[initialized |-> FALSE, aiOptimization |-> TRUE, learning |-> {}],
     [initialized |-> TRUE, aiOptimization |-> TRUE, learning |-> {GameComLearning}]}

\* now.getHours() * 100 + now.getMinutes(): inside and outside 08:00-22:00
CfgClock == {930, 2315}

NoResult == [enabled |-> FALSE, value |-> 0, adaptive |-> FALSE, priority |-> "pending"]

CfgResult ==
    getConfigForUrl(cfgIn.url, cfgIn.active, cfgIn.audible, cfgIn.profile, cfgIn.sCache,
                    cfgIn.perf, cfgIn.analytics, cfgIn.system, cfgIn.ai, cfgIn.hhmm)

\* line 300: updateStatistics('gamesDetected', 1) inside the call
CfgCountsGame ==
    /\ ~cfgIn.sCache.globalDisabled
    /\ cfgIn.profile.present
    /\ gameDetectedFor(cfgIn.url, cfgIn.sCache, cfgIn.analytics)

\* the parts of the state a specification does not use
IdleCfg == cfgIn = "idle" /\ cfgOut = "idle" /\ cfgStats = 0

IdleExt ==
    /\ build = "idle" /\ store = "idle" /\ settingsCache = "idle"
    /\ activeProfile = 0 /\ tasks = <<>> /\ inflight = <<>> /\ ops = 0

IdleLim == lim = "idle" /\ ev = "idle" /\ sent = 0

IdleRaf == clock = 0 /\ timers = EmptyBag /\ rafQueue = "idle" /\ execTimes = {}

IdleSus ==
    /\ tabs = "idle" /\ tabLastActivated = "idle" /\ tabAnalyticsMap = "idle"
    /\ services = "idle" /\ sweep = "idle" /\ dateNow = 0

IdleCyc == cycles = <<>>

IdlePre ==
    /\ currentPresetIndex = 0 /\ appliedFps = 0 /\ presetEnv = "idle" /\ presetLog = <<>>

IdleDeb ==
    /\ debounced = "idle" /\ debTimers = {} /\ debClock = 0 /\ debLog = <<>>

IdleRel == release = "idle" /\ repo = "idle"

IdleAi == recommendations = <<>> /\ aiEnv = "idle" /\ aiNow = 0 /\ aiOps = 0

IdleLearn ==
    /\ learnEngine = "idle" /\ learnHeap = <<>> /\ learningDataMap = "idle"
    /\ learnStore = "idle" /\ learnInflight = {} /\ learnOps = 0 /\ learnLast = "idle"

IdleFlag == flagBuild = "idle" /\ heavyHostsStore = <<>> /\ flagMsgs = <<>>

IdleAsk == askNow = 0 /\ askPopup = "idle" /\ askOps = 0

IdleMig == migStore = "idle" /\ migCache = "idle" /\ migRun = "idle"

IdleStat == statCache = 0 /\ statStore = 0 /\ statTimer = 0 /\ statLoads = <<>> /\ statClock = 0 /\ statMade = "idle"

IdleGone == goneTabs = "idle" /\ goneLastActivated = {} /\ goneAnalytics = {} /\ goneCalls = {} /\ goneEnv = "idle" /\ goneOps = 0

IdleConf == confIn = "idle" /\ confOut = "idle"

IdleAdd == addList = <<>> /\ addStore = <<>> /\ addLast = "idle" /\ addOps = 0

IdleSch == schScheduler = "idle" /\ schTimers = EmptyBag /\ schClock = 0 /\ schNotified = {}

IdleLoop == loopTabs = <<>> /\ loopSettings = "idle" /\ loopUnsaved = 0 /\ loopTimer = FALSE /\ loopCycles = <<>> /\ loopWrites = 0

IdleTog == togStore = {} /\ togCache = FALSE /\ togNotifications = FALSE /\ togHandlers = <<>> /\ togReloads = <<>> /\ togShown = <<>> /\ togHandled = 0 /\ togOrig = FALSE

IdleMore == IdleLearn /\ IdleFlag /\ IdleAsk /\ IdleMig /\ IdleStat /\ IdleGone /\ IdleConf /\ IdleAdd /\ IdleSch /\ IdleLoop /\ IdleTog

IdleRestTog == IdleLearn /\ IdleFlag /\ IdleAsk /\ IdleMig /\ IdleStat /\ IdleGone /\ IdleConf /\ IdleAdd /\ IdleSch /\ IdleLoop

IdleRestLoop == IdleLearn /\ IdleFlag /\ IdleAsk /\ IdleMig /\ IdleStat /\ IdleGone /\ IdleConf /\ IdleAdd /\ IdleSch /\ IdleTog

IdleRestSch == IdleLearn /\ IdleFlag /\ IdleAsk /\ IdleMig /\ IdleStat /\ IdleGone /\ IdleConf /\ IdleAdd /\ IdleLoop /\ IdleTog

IdleRestAdd == IdleLearn /\ IdleFlag /\ IdleAsk /\ IdleMig /\ IdleStat /\ IdleGone /\ IdleConf /\ IdleSch /\ IdleLoop /\ IdleTog

IdleRestConf == IdleLearn /\ IdleFlag /\ IdleAsk /\ IdleMig /\ IdleStat /\ IdleGone /\ IdleAdd /\ IdleSch /\ IdleLoop /\ IdleTog

IdleRestGone == IdleLearn /\ IdleFlag /\ IdleAsk /\ IdleMig /\ IdleStat /\ IdleConf /\ IdleAdd /\ IdleSch /\ IdleLoop /\ IdleTog

IdleRestStat == IdleLearn /\ IdleFlag /\ IdleAsk /\ IdleMig /\ IdleGone /\ IdleConf /\ IdleAdd /\ IdleSch /\ IdleLoop /\ IdleTog

IdleRestMig == IdleLearn /\ IdleFlag /\ IdleAsk /\ IdleStat /\ IdleGone /\ IdleConf /\ IdleAdd /\ IdleSch /\ IdleLoop /\ IdleTog

IdleRestAsk == IdleLearn /\ IdleFlag /\ IdleMig /\ IdleStat /\ IdleGone /\ IdleConf /\ IdleAdd /\ IdleSch /\ IdleLoop /\ IdleTog

IdleRestFlag == IdleLearn /\ IdleAsk /\ IdleMig /\ IdleStat /\ IdleGone /\ IdleConf /\ IdleAdd /\ IdleSch /\ IdleLoop /\ IdleTog

IdleRestLearn == IdleFlag /\ IdleAsk /\ IdleMig /\ IdleStat /\ IdleGone /\ IdleConf /\ IdleAdd /\ IdleSch /\ IdleLoop /\ IdleTog

IdleLater == IdleCyc /\ IdlePre /\ IdleDeb /\ IdleRel /\ IdleAi /\ IdleMore

IdleAux == IdleSus /\ IdleLater

CfgInit ==
    /\ IdleExt /\ IdleLim /\ IdleRaf /\ IdleAux
    /\ cfgIn \in [url : CfgUrls, active : BOOLEAN, audible : BOOLEAN,
                  profile : CfgProfiles, sCache : CfgSettings, perf : CfgPerf,
                  analytics : CfgAnalytics, system : CfgSystems, ai : CfgEngines,
                  hhmm : CfgClock]
    /\ cfgOut = NoResult
    /\ cfgStats = 0

CallGetConfigForUrl ==
    /\ cfgOut = NoResult
    /\ cfgOut' = CfgResult
    /\ cfgStats' = IF CfgCountsGame THEN cfgStats + 1 ELSE cfgStats
    /\ UNCHANGED <<auxVars, cfgIn, extVars, limVars, rafVars>>

CfgNext == CallGetConfigForUrl

SpecCfg == CfgInit /\ [][CfgNext]_vars

CfgDone == cfgOut # NoResult

(***************************************************************************)
(* Properties of getConfigForUrl (SpecCfg).                                *)
(***************************************************************************)
CfgHost == Hostname(cfgIn.url)

CfgRules == cfgIn.profile.autoModeConfigs

\* some rule of the active profile has its domain inside the hostname
CfgSomeDomainMatches ==
    /\ UrlParses(cfgIn.url)
    /\ \E i \in 1..Len(CfgRules) : Includes(CfgHost, CfgRules[i].domain)

\* rule i has its domain inside the hostname and its conditions hold
CfgApplies(i) ==
    autoModeRuleApplies(CfgRules[i], CfgHost, cfgIn.perf, cfgIn.system, cfgIn.hhmm)

\* rule i is the first rule that applies
CfgIsFirstApplicable(i) ==
    /\ i \in 1..Len(CfgRules)
    /\ CfgApplies(i)
    /\ \A j \in 1..(i - 1) : ~CfgApplies(j)

\* neither the power pass (lines 372-379) nor the adaptive pass (382-388) runs
\* on a configuration with this adaptive flag
CfgNoLaterPass(adaptive) ==
    /\ ~cfgIn.sCache.batteryOptimization
    /\ ~cfgIn.sCache.thermalProtection
    /\ ~(adaptive /\ cfgIn.perf.present)

\* C2 as stated: a non-active audible tab with auto-mode on always gets
\* enabled = true and value = 5.
Orig_C2 ==
    (CfgDone /\ ~cfgIn.active /\ cfgIn.audible /\ cfgIn.sCache.autoModeMasterEnable)
        => (cfgOut.enabled /\ cfgOut.value = 5)

\* C2 amended: a non-active audible tab with auto-mode on gets enabled = true
\* and value = 5 when the extension is not globally disabled, an active
\* profile exists and the tab's URL parses, whatever the rules, the AI
\* suggestion, game detection and the power inputs are.
Thm_C2 ==
    (/\ CfgDone
     /\ ~cfgIn.active /\ cfgIn.audible /\ cfgIn.sCache.autoModeMasterEnable
     /\ ~cfgIn.sCache.globalDisabled /\ cfgIn.profile.present /\ UrlParses(cfgIn.url))
        => (cfgOut.enabled /\ cfgOut.value = 5)

\* a background audible tab on a host with a matching 120-fps rule, a ready
\* AI engine with learned data, a detected game and a low battery
Wit_C2 ==
    /\ CfgDone
    /\ ~cfgIn.active /\ cfgIn.audible /\ cfgIn.sCache.autoModeMasterEnable
    /\ cfgIn.url = "https://game.com/play" /\ cfgIn.profile = CondProfile
    /\ cfgIn.sCache.aiOptimization = "on" /\ isReady(cfgIn.ai)
    /\ cfgIn.ai.learning # {}
    /\ cfgIn.sCache.batteryOptimization /\ cfgIn.system = LowBatterySystem
    /\ cfgOut.value = 5 /\ cfgOut.enabled

Orig_C4 ==
    (/\ CfgDone
     /\ cfgIn.active /\ ~cfgIn.audible
     /\ cfgIn.profile.present /\ cfgIn.profile.hasGlobalConfig
     /\ ~CfgSomeDomainMatches)
        => cfgOut.value = cfgIn.profile.globalConfig.value

\* C4 amended: an active, non-audible tab matching no rule gets the active
\* profile's globalConfig.value when the extension is not globally disabled
\* and none of the adjusting steps runs: aiOptimization, gameDetection,
\* gamingMode, batteryOptimization and thermalProtection are off, and the
\* profile's config is not adaptive or no performance data is passed.
Thm_C4 ==
    (/\ CfgDone
     /\ cfgIn.active /\ ~cfgIn.audible
     /\ cfgIn.profile.present /\ cfgIn.profile.hasGlobalConfig
     /\ ~CfgSomeDomainMatches
     /\ ~cfgIn.sCache.globalDisabled
     /\ ~Truthy(cfgIn.sCache.aiOptimization)
     /\ ~cfgIn.sCache.gameDetection /\ ~cfgIn.sCache.gamingMode
     /\ CfgNoLaterPass(cfgIn.profile.globalConfig.adaptive))
        => cfgOut.value = cfgIn.profile.globalConfig.value

\* the profile whose globalConfig is 45 fps, on a page no rule matches
Wit_C4 ==
    /\ CfgDone
    /\ cfgIn.active /\ ~cfgIn.audible
    /\ cfgIn.url = "https://normal-website.com" /\ cfgIn.profile = CondProfile
    /\ cfgIn.sCache.autoModeMasterEnable /\ ~cfgIn.sCache.globalDisabled
    /\ ~Truthy(cfgIn.sCache.aiOptimization)
    /\ ~cfgIn.sCache.gameDetection /\ ~cfgIn.sCache.gamingMode
    /\ CfgNoLaterPass(TRUE)
    /\ cfgOut.value = 45

\* C5: with globalDisabled the returned configuration has enabled = false,
\* for every url, tab state, profile, rule list and AI or game input.
Thm_C5 == (CfgDone /\ cfgIn.sCache.globalDisabled) => ~cfgOut.enabled

\* globally disabled, on a background audible tab of a profile with rules
Wit_C5 ==
    /\ CfgDone /\ cfgIn.sCache.globalDisabled
    /\ ~cfgIn.active /\ cfgIn.audible /\ cfgIn.sCache.autoModeMasterEnable
    /\ cfgIn.profile = FixtureProfile /\ cfgIn.url = "https://game.com/play"
    /\ isReady(cfgIn.ai) /\ cfgIn.sCache.aiOptimization = "on"
    /\ ~cfgOut.enabled

\* the call reaches the rule search of lines 316-359
CfgRuleSearchReached ==
    /\ CfgDone
    /\ ~cfgIn.sCache.globalDisabled /\ cfgIn.profile.present /\ UrlParses(cfgIn.url)
    /\ cfgIn.sCache.autoModeMasterEnable /\ ~(~cfgIn.active /\ cfgIn.audible)

\* the result of lines 371-388 on the configuration `config` of line 361
CfgAfterRules(config) ==
    adaptiveStep(powerStep(config, cfgIn.sCache, cfgIn.perf, cfgIn.system),
                 cfgIn.perf, cfgIn.analytics)

\* baseConfig before the rule search
CfgBeforeRules ==
    gameStep(aiStep(profileBaseConfig(cfgIn.profile), cfgIn.url, cfgIn.sCache,
                    cfgIn.perf, cfgIn.analytics, cfgIn.system, cfgIn.ai, cfgIn.hhmm),
             cfgIn.url, cfgIn.sCache, cfgIn.analytics)

\* C32: the rule applied is the first entry of the active profile's
\* autoModeConfigs whose domain is inside the hostname and whose conditions
\* hold: the result is what lines 361-388 make of that entry's fps, whatever
\* entries follow it, and what they make of the configuration before the
\* search when no entry applies.
Thm_C32 ==
    CfgRuleSearchReached =>
        /\ \A i \in 1..Len(CfgRules) :
              CfgIsFirstApplicable(i) =>
                  cfgOut = CfgAfterRules(
                              [enabled |-> TRUE, value |-> CfgRules[i].fps,
                               adaptive |-> NullishTrue(cfgIn.sCache.aiOptimization),
                               priority |-> "balanced"])
        /\ (\A i \in 1..Len(CfgRules) : ~CfgApplies(i)) =>
              cfgOut = CfgAfterRules(CfgBeforeRules)

\* the first and the second rule of the profile both apply to game.com and
\* the first one's 30 fps is returned
Wit_C32 ==
    /\ CfgRuleSearchReached
    /\ cfgIn.url = "https://game.com/play" /\ cfgIn.profile = CondProfile
    /\ cfgIn.system = NoSystem /\ cfgIn.hhmm = 930
    /\ CfgApplies(1) /\ CfgApplies(2)
    /\ CfgNoLaterPass(NullishTrue(cfgIn.sCache.aiOptimization))
    /\ cfgOut.value = 30

(***************************************************************************)
(* SpecFail: getConfigForUrl with an active profile, the extension not     *)
(* globally disabled, and one of the service calls of the try block        *)
(* throwing or none.  The URL that does not parse makes `new URL` throw.   *)
(***************************************************************************)
FailInit ==
    /\ IdleExt /\ IdleLim /\ IdleRaf /\ IdleAux
    /\ cfgIn \in [url : CfgUrls, active : BOOLEAN, audible : BOOLEAN,
                  profile : {FixtureProfile, CondProfile},
                  sCache : {c \in CfgSettings : ~c.globalDisabled}, perf : CfgPerf,
                  analytics : CfgAnalytics, system : CfgSystems,
                  ai : {e \in CfgEngines : isReady(e)}, hhmm : {930},
                  failAt : FailSteps]
    /\ cfgOut = NoResult
    /\ cfgStats = 0

CallGetConfigForUrlFailing ==
    /\ cfgOut = NoResult
    /\ cfgOut' = getConfigForUrlFailing(cfgIn.url, cfgIn.active, cfgIn.audible,
                                        cfgIn.profile, cfgIn.sCache, cfgIn.perf,
                                        cfgIn.analytics, cfgIn.system, cfgIn.ai,
                                        cfgIn.hhmm, cfgIn.failAt)
    /\ cfgStats' = IF CfgCountsGame /\ cfgIn.failAt # "game" THEN cfgStats + 1
                                                             ELSE cfgStats
    /\ UNCHANGED <<auxVars, cfgIn, extVars, limVars, rafVars>>

FailNext == CallGetConfigForUrlFailing

SpecFail == FailInit /\ [][FailNext]_vars

\* baseConfig after line 270, after the AI step, after the rule search and
\* after the power pass
FailBase == profileBaseConfig(cfgIn.profile)

FailAfterAi ==
    aiStep(FailBase, cfgIn.url, cfgIn.sCache, cfgIn.perf, cfgIn.analytics, cfgIn.system,
           cfgIn.ai, cfgIn.hhmm)

FailAfterRules ==
    autoModeStep(gameStep(FailAfterAi, cfgIn.url, cfgIn.sCache, cfgIn.analytics),
                 CfgHost, cfgIn.profile, cfgIn.sCache, cfgIn.perf, cfgIn.system,
                 cfgIn.hhmm)

FailAfterPower == powerStep(FailAfterRules, cfgIn.sCache, cfgIn.perf, cfgIn.system)

\* the call returns at line 307 before the rule search
FailReturnsAtAudio ==
    cfgIn.sCache.autoModeMasterEnable /\ ~cfgIn.active /\ cfgIn.audible

\* C31: a failure inside the try block is not propagated and the call
\* returns the configuration computed so far: the profile's base
\* configuration when the URL does not parse, the configuration after the
\* AI step when the game detector throws, the one after the rule search
\* when the power manager throws, the one after the power pass when the
\* performance monitor throws.
Thm_C31 ==
    CfgDone =>
        /\ ~UrlParses(cfgIn.url) => cfgOut = FailBase
        /\ (/\ UrlParses(cfgIn.url) /\ cfgIn.failAt = "game"
            /\ (cfgIn.sCache.gameDetection \/ cfgIn.sCache.gamingMode))
              => cfgOut = FailAfterAi
        /\ (/\ UrlParses(cfgIn.url) /\ cfgIn.failAt = "power" /\ ~FailReturnsAtAudio
            /\ (cfgIn.sCache.batteryOptimization \/ cfgIn.sCache.thermalProtection))
              => cfgOut = FailAfterRules
        /\ (/\ UrlParses(cfgIn.url) /\ cfgIn.failAt = "adapt" /\ ~FailReturnsAtAudio
            /\ FailAfterPower.adaptive /\ cfgIn.perf.present)
              => cfgOut = FailAfterPower

\* the power manager throws on a low battery after the second rule for
\* game.com was applied: the rule's 120 fps is returned
Wit_C31 ==
    /\ CfgDone /\ cfgIn.failAt = "power"
    /\ cfgIn.url = "https://game.com/play" /\ cfgIn.profile = CondProfile
    /\ cfgIn.active /\ cfgIn.sCache.autoModeMasterEnable
    /\ cfgIn.sCache.batteryOptimization /\ cfgIn.system = LowBatterySystem
    /\ CfgIsFirstApplicable(2)
    /\ cfgOut.value = 120 /\ cfgOut # FailBase

(***************************************************************************)
(* The content-script limiter: AdvancedFPSLimiter (src/src/content.ts,     *)
(* variant "advanced"), the baseline FPSLimiter (src/unnamed/part_010,     *)
(* variant "baseline") and the plain-JavaScript FPSLimiter                 *)
(* (src/unnamed/part_011 lines 1-60, variant "simple").                    *)
(*                                                                         *)
(* The limiter's settingsCache is the result of chrome.storage.local       *)
(* .get(null), a record of the store's keys.  A flag key that no component *)
(* writes is "unset"; an optional config is [present, config].             *)
(***************************************************************************)
NegInfinity == -100000000

heavyAvgThreshold == 8

maxHistory == 1000

\* content.ts line 27, part_010 line 13
maxSamples(variant) == IF variant = "advanced" THEN 240 ELSE 120

\* the average looked at from the first sample on
minSamples_None(variant) == 0

\* the samples needed before the average is looked at: content.ts line 368
\* (10), part_010 line 87 (the full window)
minSamples(variant) == IF variant = "advanced" THEN 10 ELSE maxSamples(variant)

NoConfig ==
    [present |-> FALSE,
     config |-> [enabled |-> FALSE, value |-> 0, adaptive |-> FALSE, priority |-> "none"]]

\* an empty store
EmptyStore ==
    [globalDisabled |-> FALSE, applyInFrames |-> FALSE,
     globalConfig |-> NoConfig, hostConfig |-> NoConfig,
     global |-> NoConfig,
     autoModeMasterEnable |-> "unset", autoModeConfigs |-> <<>>,
     aiOptimization |-> "unset", adaptiveMode |-> "unset",
     batteryOptimization |-> "unset", networkAwareness |-> "unset",
     profiles |-> <<>>, activeProfileId |-> "null"]

\* no performanceData argument
NoPageMetrics ==
    [present |-> FALSE, batteryLevel |-> 100, cpuUsage |-> 0,
     thermalState |-> "normal", networkType |-> "4g"]

\* the limiter's getConfigForUrl (content.ts 177-204; part_010 31-40;
\* part_011 19-28); the host's own key of the store is hostConfig
limiterGetConfigForUrl(variant, cache, host, tabIsActive, tabIsAudible, gameMode) ==
    LET adv == variant = "advanced"
        adaptive == adv /\ NullishTrue(cache.adaptiveMode)
        prio == IF ~adv THEN "none" ELSE IF gameMode THEN "performance" ELSE "balanced"
        hit == {i \in 1..Len(cache.autoModeConfigs) :
                    Includes(host, cache.autoModeConfigs[i].domain)}
        auto == IF hit = {} THEN 0 ELSE CHOOSE i \in hit : \A j \in hit : i <= j
    IN  IF Truthy(cache.autoModeMasterEnable) /\ ~tabIsActive /\ tabIsAudible
        THEN [enabled |-> TRUE, value |-> 5, adaptive |-> adv,
              priority |-> IF adv THEN "battery" ELSE "none"]
        ELSE IF Truthy(cache.autoModeMasterEnable) /\ auto # 0
        THEN [enabled |-> TRUE, value |-> cache.autoModeConfigs[auto].fps,
              adaptive |-> adaptive, priority |-> prio]
        ELSE IF cache.hostConfig.present
        THEN IF adv THEN [cache.hostConfig.config EXCEPT !.adaptive = adaptive]
                    ELSE cache.hostConfig.config
        ELSE IF cache.globalConfig.present
        THEN IF adv THEN [cache.globalConfig.config EXCEPT !.adaptive = adaptive,
                                                           !.priority = prio]
                    ELSE cache.globalConfig.config
        ELSE [enabled |-> TRUE, value |-> 60, adaptive |-> adaptive, priority |-> prio]

\* calculateAdaptiveFPS (content.ts 239-273), the rate kept in thousandths
calculateAdaptiveFPS(baseFps, performanceData, cache) ==
    LET a0 == baseFps * 1000
        a1 == IF Truthy(cache.batteryOptimization) /\ performanceData.batteryLevel < 20
              THEN Min(a0, 30000)
              ELSE IF performanceData.batteryLevel < 50
              THEN Min(a0, baseFps * 800)
              ELSE a0
        a2 == IF performanceData.cpuUsage > 80 THEN Max(15000, (a1 * 6) \div 10)
              ELSE IF performanceData.cpuUsage > 60 THEN (a1 * 8) \div 10
              ELSE a1
        a3 == (a2 * thermalTenths(performanceData.thermalState)) \div 10
        a4 == IF /\ Truthy(cache.networkAwareness)
                 /\ performanceData.networkType \in {"slow-2g", "2g"}
              THEN Min(a3, 30000)
              ELSE a3
    IN  Max(5, RoundMilli(a4))

RECURSIVE SumSeq(_)
SumSeq(s) == IF s = <<>> THEN 0 ELSE Head(s) + SumSeq(Tail(s))

\* FramePredictor.predictOptimalFPS (content.ts 554-572), rates in thousandths
predictOptimalFPS(baseMilli, frameHistory, jankFrames) ==
    IF Len(frameHistory) < 60 THEN baseMilli
    ELSE
    LET n == Len(frameHistory)
        total == SumSeq(SubSeq(frameHistory, n - 59, n))    \* avgDuration * 60
    IN  IF total < 8 * 60 /\ jankFrames < 3 THEN Min((baseMilli * 12) \div 10, 240000)
        ELSE IF total > 20 * 60 \/ jankFrames > 10 THEN Max((baseMilli * 8) \div 10, 15000)
        ELSE baseMilli

\* uninstall (content.ts 292-297; part_010 61)
uninstall(l) == [l EXCEPT !.installed = FALSE]

\* install (content.ts 275-290; part_010 50-59)
install(l) == IF l.config.enabled THEN [l EXCEPT !.installed = TRUE] ELSE uninstall(l)

\* the frame interval in microseconds (content.ts 232; part_010 46)
frameIntervalFor(variant, targetMilli) ==
    IF variant = "advanced"
    THEN 1000000000 \div Max(1000, targetMilli)
    ELSE 1000000000 \div (IF targetMilli > 0 THEN targetMilli ELSE 60000)

\* update (content.ts 206-237; part_010 42-48; part_011 30-37)
update(l, newConfig, performanceData) ==
    LET adv == l.variant = "advanced"
        l1 == [l EXCEPT !.config = newConfig,
                        !.adaptiveMode = IF adv THEN newConfig.adaptive ELSE @]
        t0 == IF adv /\ l1.adaptiveMode /\ performanceData.present
              THEN 1000 * calculateAdaptiveFPS(newConfig.value, performanceData,
                                               l.settingsCache)
              ELSE 1000 * newConfig.value
        t1 == IF adv /\ Truthy(l.settingsCache.aiOptimization)
              THEN predictOptimalFPS(t0, l.frameHistory, l.jankFrames)
              ELSE t0
    IN  IF l.isIframe /\ ~l.settingsCache.applyInFrames THEN uninstall(l1)
        ELSE IF l.settingsCache.globalDisabled THEN uninstall(l1)
        ELSE install([l1 EXCEPT !.frameInterval = frameIntervalFor(l.variant, t1)])

\* the object after its constructor (content.ts 14-70; part_010 3-21)
NewLimiter(variant, isIframe, gameMode) ==
    [variant |-> variant, isIframe |-> isIframe,
     config |-> [enabled |-> FALSE, value |-> 60, adaptive |-> variant = "advanced",
                 priority |-> IF variant = "advanced" THEN "balanced" ELSE "none"],
     settingsCache |-> EmptyStore,
     frameInterval |-> 1000000 \div 60,
     lastFrameTime |-> NegInfinity,
     installed |-> FALSE, listening |-> FALSE,
     adaptiveMode |-> FALSE, gameMode |-> FALSE,
     scheduler |-> [gameMode |-> FALSE, isVisible |-> TRUE, contentChanged |-> FALSE,
                    longTaskDetected |-> FALSE],
     frameDurations |-> <<>>, durationSum |-> 0, isPageFlagged |-> FALSE,
     averageFrameTime |-> <<1667, 100>>, jankFrames |-> 0,
     frameHistory |-> <<>>]

\* init (content.ts 72-86; part_010 23-29): the store is read once, the first
\* config is computed locally, the game check of setupGameDetection sets
\* gameMode, the config is applied and the message listener is registered
init(l, data, host, gameMode) ==
    LET l1 == [l EXCEPT !.settingsCache = data,
                        !.gameMode = gameMode /\ l.variant = "advanced",
                        !.scheduler.gameMode = gameMode /\ l.variant = "advanced"]
        config == limiterGetConfigForUrl(l.variant, data, host, TRUE, FALSE, l.gameMode)
    IN  [update(l1, config, NoPageMetrics) EXCEPT !.listening = TRUE]

(***************************************************************************)
(* Frame analysis.  analyzeFrame and executeCallback return the limiter    *)
(* and the number of PAGE_IS_HEAVY messages sent.  Durations are in        *)
(* milliseconds; averageFrameTime is the pair <<durationSum, length>>.     *)
(* Of renderMetrics the model keeps averageFrameTime and jankFrames, the   *)
(* two fields that the limiter reads back.                                 *)
(***************************************************************************)
\* the test of the flag, with the flag never seen as set
alreadyFlagged_Never(l) == FALSE

\* `this.isPageFlagged` as tested at content.ts 436 and part_010 81
alreadyFlagged(l) == l.isPageFlagged

\* push, and shift when over capacity (content.ts 359-366; part_010 82-86)
pushDuration(l, duration) ==
    LET pushed == Append(l.frameDurations, duration)
        over == Len(pushed) > maxSamples(l.variant)
    IN  [l EXCEPT !.frameDurations = IF over THEN Tail(pushed) ELSE pushed,
                  !.durationSum = IF over THEN @ + duration - Head(pushed)
                                          ELSE @ + duration]

\* updateRenderMetrics (content.ts 382-409)
updateRenderMetrics(l) ==
    [l EXCEPT !.averageFrameTime = <<l.durationSum, Len(l.frameDurations)>>,
              !.jankFrames = Cardinality({i \in 1..Len(l.frameDurations) :
                                 2000 * l.frameDurations[i] > 3 * l.frameInterval})]

\* detectPerformanceIssues (content.ts 432-439)
detectPerformanceIssues(l) ==
    IF /\ ~alreadyFlagged(l)
       /\ l.averageFrameTime[1] > heavyAvgThreshold * l.averageFrameTime[2]
    THEN [lim |-> [l EXCEPT !.isPageFlagged = TRUE], signals |-> 1]
    ELSE [lim |-> l, signals |-> 0]

\* analyzeFrame (content.ts 355-380; part_010 80-93; none in part_011)
analyzeFrame(l, duration) ==
    IF l.variant = "advanced"
    THEN IF l.isIframe /\ ~l.gameMode THEN [lim |-> l, signals |-> 0]
         ELSE LET l1 == pushDuration(l, duration)
              IN  IF Len(l1.frameDurations) < minSamples(l.variant)
                  THEN [lim |-> l1, signals |-> 0]
                  ELSE detectPerformanceIssues(updateRenderMetrics(l1))
    ELSE IF l.variant = "baseline"
    THEN IF alreadyFlagged(l) \/ l.isIframe THEN [lim |-> l, signals |-> 0]
         ELSE LET l1 == pushDuration(l, duration)
              IN  IF Len(l1.frameDurations) < minSamples(l.variant)
                  THEN [lim |-> l1, signals |-> 0]
                  ELSE IF l1.durationSum > heavyAvgThreshold * Len(l1.frameDurations)
                  THEN [lim |-> [l1 EXCEPT !.isPageFlagged = TRUE], signals |-> 1]
                  ELSE [lim |-> l1, signals |-> 0]
    ELSE [lim |-> l, signals |-> 0]

\* FramePredictor.recordFrame (content.ts 547-552)
recordFrame(l, duration) ==
    LET pushed == Append(l.frameHistory, duration)
    IN  [l EXCEPT !.frameHistory = IF Len(pushed) > maxHistory THEN Tail(pushed)
                                                               ELSE pushed]

\* the statement after `try { cb(...) }` is never reached when cb throws
tryCallback_NoCatch(throws) == ~throws

\* `try { cb(timestamp); } catch (err) { ... }` (content.ts 315-319;
\* part_010 66-67; part_011 49): whether control reaches the statement
\* after the try, the page callback throwing or not
tryCallback(throws) == TRUE

\* the wrapped callback run at `timestamp`, the page callback taking
\* `duration` ms and throwing or not (content.ts 312-327; part_010 65-70;
\* part_011 49).  `escaped` tells that an exception left the wrapped
\* callback, the statements after the call of cb not being run.
executeCallback(l, timestamp, duration, throws) ==
    LET l1 == IF l.variant = "advanced" THEN [l EXCEPT !.lastFrameTime = timestamp]
                                        ELSE l
    IN  IF ~tryCallback(throws)
        THEN [lim |-> l1, signals |-> 0, escaped |-> TRUE]
        ELSE IF l.variant = "advanced"
        THEN LET r == analyzeFrame(l1, duration)
             IN  [lim |-> recordFrame(r.lim, duration), signals |-> r.signals,
                  escaped |-> FALSE]
        ELSE LET r == analyzeFrame(l1, duration)
             IN  [lim |-> r.lim, signals |-> r.signals, escaped |-> FALSE]

\* n wrapped callbacks run one after the other in the same animation frame,
\* each of them its own callback of the native primitive
RECURSIVE executeCallbacks(_, _, _, _, _)
executeCallbacks(l, n, timestamp, duration, throws) ==
    IF n = 0 THEN [lim |-> l, signals |-> 0, escaped |-> FALSE]
    ELSE LET r == executeCallback(l, timestamp, duration, throws)
             rest == executeCallbacks(r.lim, n - 1, timestamp, duration, throws)
         IN  [lim |-> rest.lim, signals |-> r.signals + rest.signals,
              escaped |-> r.escaped \/ rest.escaped]

(***************************************************************************)
(* Throttling.                                                             *)
(***************************************************************************)
\* AdaptiveScheduler.shouldScheduleFrame (content.ts 601-615)
shouldScheduleFrame(scheduler, elapsed, frameInterval) ==
    IF scheduler.gameMode THEN TRUE
    ELSE IF ~scheduler.isVisible THEN elapsed > frameInterval * 3
    ELSE IF scheduler.contentChanged THEN 10 * elapsed > 8 * frameInterval
    ELSE IF scheduler.longTaskDetected THEN 2 * elapsed > 3 * frameInterval
    ELSE TRUE

\* the wrapper never deferring a callback
wrapperPath_NeverDefers(l, now) == "raf"

\* the branch an intercepted call takes at time `now`:
\*   "skip"    the page callback is dropped, an empty one goes to the native
\*             primitive (content.ts 305-308)
\*   "raf"     the wrapped callback goes to the native primitive
\*             (content.ts 329-330; part_010 71-73)
\*   "direct"  the wrapped callback is run at once (part_011 49)
\*   "timer"   setTimeout with the delay (content.ts 624; part_010 75)
\*   "reenter" scheduleFrame calls the global requestAnimationFrame, which
\*             is the wrapper itself while it is installed (content.ts 619-621)
wrapperPath(l, now) ==
    LET elapsed == now - l.lastFrameTime
        delay == l.frameInterval - elapsed
    IN  IF l.variant = "advanced"
        THEN IF ~shouldScheduleFrame(l.scheduler, elapsed, l.frameInterval) THEN "skip"
             ELSE IF delay <= 0 THEN "raf"
             ELSE IF l.scheduler.gameMode /\ delay < 4000 THEN "reenter"
             ELSE "timer"
        ELSE IF delay <= 0
             THEN IF l.variant = "simple" THEN "direct" ELSE "raf"
             ELSE "timer"

(***************************************************************************)
(* SpecRaf: a page calling the installed wrapper.  The display refreshes   *)
(* every FramePeriod microseconds (60 Hz, rounded up so that two periods   *)
(* are not shorter than the 30-fps interval) and runs the callbacks queued *)
(* on the native primitive; a timer runs when the clock reaches its due    *)
(* time.  The clock stops at the refresh and timer instants and, between   *)
(* them, after one of CallGaps, so that the page can call at those times.  *)
(* A page callback that asks for the next frame from inside itself is a    *)
(* PageCall at the instant of its execution.                               *)
(***************************************************************************)
MaxCalls == 4

MaxTime == 120000

FramePeriod == 1000000 \div 60 + 1

\* 10 ms and 40 ms
CallGaps == {10000, 40000}

\* the limiter's target rates
RafRates == {30, 60}

\* the measured cost of a page callback, in ms
RafCost == 2

\* the states of the AdaptiveScheduler: game mode, hidden, after a content
\* change, after a long task, none of them
RafSchedulers ==
    {[gameMode |-> TRUE, isVisible |-> TRUE, contentChanged |-> FALSE,
      longTaskDetected |-> FALSE],
     [gameMode |-> FALSE, isVisible |-> FALSE, contentChanged |-> FALSE,
      longTaskDetected |-> FALSE],
     [gameMode |-> FALSE, isVisible |-> TRUE, contentChanged |-> TRUE,
      longTaskDetected |-> FALSE],
     [gameMode |-> FALSE, isVisible |-> TRUE, contentChanged |-> FALSE,
      longTaskDetected |-> TRUE],
     [gameMode |-> FALSE, isVisible |-> TRUE, contentChanged |-> FALSE,
      longTaskDetected |-> FALSE]}

\* a store whose globalConfig enables the limiter at `fps`
RafStore(fps) ==
    [EmptyStore EXCEPT !.globalConfig =
        [present |-> TRUE,
         config |-> [enabled |-> TRUE, value |-> fps, adaptive |-> TRUE,
                     priority |-> "balanced"]]]

\* `threw`: a page callback has thrown; `pacedAfter`: after that, a call was
\* deferred by a timer; `escaped`: an exception has left a wrapped callback;
\* `asIf`: the limiter as the last step leaves it when the page callbacks
\* it runs return normally
NoCall ==
    [op |-> "none", calls |-> 0, now |-> 0, elapsed |-> 0, delay |-> 0,
     path |-> "none", outcome |-> "none", before |-> NegInfinity,
     threw |-> FALSE, pacedAfter |-> FALSE, escaped |-> FALSE, asIf |-> "none"]

RafInit ==
    /\ IdleCfg /\ IdleExt /\ IdleAux
    /\ \E variant \in {"advanced", "baseline", "simple"}, fps \in RafRates,
          sch \in RafSchedulers :
          /\ variant # "advanced" =>
                sch = [gameMode |-> FALSE, isVisible |-> TRUE,
                       contentChanged |-> FALSE, longTaskDetected |-> FALSE]
          /\ lim = [init(NewLimiter(variant, FALSE, FALSE), RafStore(fps),
                         "normal-website.com", sch.gameMode)
                    EXCEPT !.scheduler = sch]
    /\ ev = [NoCall EXCEPT !.asIf = lim]
    /\ sent = 0
    /\ clock = 0
    /\ timers = EmptyBag
    /\ rafQueue = [exec |-> 0, noop |-> 0, ranAt |-> -1]
    /\ execTimes = {}

\* window.requestAnimationFrame(cb) while the wrapper is installed
PageCall ==
    /\ lim.installed
    /\ ev.calls < MaxCalls
    /\ LET now == clock
           elapsed == now - lim.lastFrameTime
           delay == lim.frameInterval - elapsed
           path == wrapperPath(lim, now)
       IN  \E outcome \in (IF path = "reenter" THEN {"raf", "throw"} ELSE {path}),
              throws \in (IF path = "direct" THEN BOOLEAN ELSE {FALSE}) :
           LET l1 == IF lim.variant # "advanced" /\ delay <= 0
                     THEN [lim EXCEPT !.lastFrameTime = now]
                     ELSE lim
               r == IF outcome = "direct"
                    THEN executeCallback(l1, now, RafCost, throws)
                    ELSE [lim |-> l1, signals |-> 0, escaped |-> FALSE]
               normal == IF outcome = "direct"
                         THEN executeCallback(l1, now, RafCost, FALSE)
                         ELSE r
           IN  /\ lim' = r.lim
               /\ sent' = sent + r.signals
               /\ timers' = IF outcome = "timer"
                            THEN timers (+) SetToBag({now + delay})
                            ELSE timers
               /\ rafQueue' = IF outcome = "raf" THEN [rafQueue EXCEPT !.exec = @ + 1]
                              ELSE IF outcome = "skip"
                              THEN [rafQueue EXCEPT !.noop = @ + 1]
                              ELSE rafQueue
               /\ execTimes' = IF outcome = "direct" THEN execTimes \cup {now}
                                                     ELSE execTimes
               /\ ev' = [op |-> "call", calls |-> ev.calls + 1, now |-> now,
                         elapsed |-> elapsed, delay |-> delay, path |-> path,
                         outcome |-> outcome, before |-> lim.lastFrameTime,
                         threw |-> ev.threw \/ throws,
                         pacedAfter |-> ev.pacedAfter \/ (ev.threw /\ outcome = "timer"),
                         escaped |-> ev.escaped \/ r.escaped,
                         asIf |-> normal.lim]
    /\ UNCHANGED <<auxVars, clock, cfgVars, extVars>>

RafFrameDue ==
    /\ rafQueue.exec + rafQueue.noop > 0
    /\ clock % FramePeriod = 0
    /\ rafQueue.ranAt # clock

\* the display refreshes: the callbacks queued on the native primitive run
AnimationFrame ==
    /\ RafFrameDue
    /\ \E throws \in (IF rafQueue.exec > 0 THEN BOOLEAN ELSE {FALSE}) :
          LET r == executeCallbacks(lim, rafQueue.exec, clock, RafCost, throws)
              normal == executeCallbacks(lim, rafQueue.exec, clock, RafCost, FALSE)
          IN  /\ lim' = r.lim
              /\ sent' = sent + r.signals
              /\ ev' = [ev EXCEPT !.op = "frame", !.threw = @ \/ throws,
                                  !.escaped = @ \/ r.escaped, !.asIf = normal.lim]
    /\ execTimes' = IF rafQueue.exec > 0 THEN execTimes \cup {clock} ELSE execTimes
    /\ rafQueue' = [exec |-> 0, noop |-> 0, ranAt |-> clock]
    /\ UNCHANGED <<auxVars, clock, timers, cfgVars, extVars>>

\* a setTimeout callback runs at its due time
TimerFire ==
    /\ \E due \in BagToSet(timers) :
          /\ due <= clock
          /\ timers' = timers (-) SetToBag({due})
    /\ \E throws \in BOOLEAN :
          LET r == executeCallback(lim, clock, RafCost, throws)
              normal == executeCallback(lim, clock, RafCost, FALSE)
          IN  /\ lim' = r.lim
              /\ sent' = sent + r.signals
              /\ ev' = [ev EXCEPT !.op = "timer", !.threw = @ \/ throws,
                                  !.escaped = @ \/ r.escaped, !.asIf = normal.lim]
    /\ execTimes' = execTimes \cup {clock}
    /\ UNCHANGED <<auxVars, clock, rafQueue, cfgVars, extVars>>

RafNextRefresh == ((clock \div FramePeriod) + 1) * FramePeriod

RafEventTimes ==
    BagToSet(timers) \cup
    (IF rafQueue.exec + rafQueue.noop > 0 THEN {RafNextRefresh} ELSE {})

\* time passes, up to the next pending event
Advance ==
    /\ ~RafFrameDue
    /\ \A due \in BagToSet(timers) : due > clock
    /\ \E t \in RafEventTimes \cup {clock + g : g \in CallGaps} :
          /\ t <= MaxTime
          /\ \A e \in RafEventTimes : t <= e
          /\ clock' = t
    /\ ev' = [ev EXCEPT !.op = "advance"]
    /\ UNCHANGED <<auxVars, lim, sent, timers, rafQueue, execTimes, cfgVars, extVars>>

RafNext == PageCall \/ AnimationFrame \/ TimerFire \/ Advance

SpecRaf == RafInit /\ [][RafNext]_vars

\* C7 as stated: with the wrapper installed at rate f, two executions of
\* page callbacks at different times are at least frameInterval apart.
Orig_C7 ==
    \A a \in execTimes : \A b \in execTimes :
        a < b => b - a >= lim.frameInterval

\* the call just made took the immediate branch
RafImmediate == ev.outcome \in {"raf", "direct"}

\* the call just made set a timer due exactly `delay` after the call
RafDeferredByDelay ==
    /\ ev.outcome = "timer"
    /\ BagIn(ev.now + ev.delay, timers)

Thm_C30 ==
    /\ lim.installed
    /\ ~ev.escaped
    /\ ev.asIf = lim

\* a page callback threw, a later call was deferred by a timer, and a timer
\* callback has just run
Wit_C30 ==
    /\ ev.threw /\ ev.pacedAfter
    /\ ev.op = "timer"
    /\ lim.installed /\ clock \in execTimes

\* C35 as stated: every callback passed to the installed wrapper is run
\* exactly once and every intercepted call terminates.  The formula is the
\* part of it that a single call decides: the call returns, and on return
\* the page callback has been run, is queued on the native primitive or is
\* held by a timer; it is neither replaced by an empty callback nor lost in
\* a call that ends with an exception.
Orig_C35 ==
    ev.op = "call" => ev.outcome \in {"raf", "direct", "timer"}

(***************************************************************************)
(* SpecInterval: the content script receives UPDATE_CONFIG messages whose  *)
(* config carries any of IntervalValues, with or without performance data. *)
(***************************************************************************)
MaxUpdates == 2

\* config.value: negative, zero, and rates from 1 to 240 fps
IntervalValues == {-30, 0, 1, 30, 60, 240}

\* message.performanceData: absent, a healthy machine, a loaded one
IntervalMetrics ==
    {NoPageMetrics,
     [NoPageMetrics EXCEPT !.present = TRUE],
     [present |-> TRUE, batteryLevel |-> 15, cpuUsage |-> 90,
      thermalState |-> "critical", networkType |-> "2g"]}

IntervalLimiters ==
    {init(NewLimiter(variant, FALSE, FALSE),
          [RafStore(60) EXCEPT !.aiOptimization = ai, !.batteryOptimization = ai],
          "normal-website.com", FALSE) :
        variant \in {"advanced", "baseline", "simple"}, ai \in {"on", "unset"}}

IntervalInit ==
    /\ IdleCfg /\ IdleExt /\ IdleRaf /\ IdleAux
    /\ lim \in IntervalLimiters
    /\ sent = 0
    /\ ev = [op |-> "init", value |-> 60, updates |-> 0]

\* case 'UPDATE_CONFIG' of the listener (content.ts 523-526; part_010 97-99)
IntervalUpdate ==
    /\ ev.updates < MaxUpdates
    /\ \E value \in IntervalValues, enabled \in BOOLEAN, adaptive \in BOOLEAN,
          performanceData \in IntervalMetrics :
          LET config == [enabled |-> enabled, value |-> value, adaptive |-> adaptive,
                         priority |-> "balanced"]
              l1 == update(lim, config, performanceData)
          IN  /\ lim' = IF lim.variant = "advanced" THEN [l1 EXCEPT !.adaptiveMode = FALSE]
                                                    ELSE l1
              /\ ev' = [op |-> "update", value |-> value, updates |-> ev.updates + 1]
    /\ UNCHANGED <<auxVars, sent, cfgVars, extVars, rafVars>>

IntervalNext == IntervalUpdate

SpecInterval == IntervalInit /\ [][IntervalNext]_vars

\* C33 as stated: after an update with a non-positive value the frame
\* interval is that of 60 fps (1000/60 ms, 16666 microseconds), and the
\* frame interval is positive in every state.
Orig_C33 ==
    /\ lim.frameInterval > 0
    /\ (ev.op = "update" /\ ev.value <= 0) => lim.frameInterval = 1000000 \div 60

(***************************************************************************)
(* SpecAdapt: calculateAdaptiveFPS (content.ts 239-273) applied to a base  *)
(* rate and a performance report drawn from the sets below, under each     *)
(* setting of the two flags of the limiter's cache that it reads.          *)
(***************************************************************************)
\* config.value: rates from 5 to 240 fps
AdaptBases == {5, 10, 14, 15, 24, 30, 60, 144, 240}

\* the performance reports: battery below 20, below 50 and full; CPU idle,
\* above 60 and above 80; the four thermal states; a slow and a fast network
AdaptMetrics ==
    [present : {TRUE}, batteryLevel : {10, 30, 100}, cpuUsage : {0, 70, 90},
     thermalState : {"normal", "fair", "serious", "critical"},
     networkType : {"2g", "4g"}]

AdaptInit ==
    /\ IdleCfg /\ IdleExt /\ IdleRaf /\ IdleAux
    /\ lim \in [batteryOptimization : {"on", "unset"}, networkAwareness : {"on", "unset"}]
    /\ sent = 0
    /\ ev \in [op : {"input"}, baseFps : AdaptBases, performanceData : AdaptMetrics,
               result : {0}]

\* update (content.ts 215-217): the call of calculateAdaptiveFPS
AdaptCalc ==
    /\ ev.op = "input"
    /\ ev' = [ev EXCEPT !.op = "adapt",
                        !.result = calculateAdaptiveFPS(ev.baseFps, ev.performanceData, lim)]
    /\ UNCHANGED <<auxVars, lim, sent, cfgVars, extVars, rafVars>>

AdaptNext == AdaptCalc

SpecAdapt == AdaptInit /\ [][AdaptNext]_vars

\* C40: for every base rate of at least 5 fps and every battery level, CPU
\* usage, thermal state and network type, calculateAdaptiveFPS returns a
\* rate of at most the base rate and at least 5
Orig_C40 ==
    ev.op = "adapt" => ev.result <= ev.baseFps /\ ev.result >= 5

(***************************************************************************)
(* SpecHeavy: the frames of a page analysed one after the other.  A page   *)
(* callback costs LightCost or HeavyCost ms; in one load the page keeps    *)
(* its cost or changes it once (a light page turning heavy, a heavy page   *)
(* turning light), and a reload starts a new content script.  `sent`       *)
(* counts the PAGE_IS_HEAVY messages of the current load.                  *)
(***************************************************************************)
MaxFrames == 130

MaxLoads == 2

LightCost == 2

HeavyCost == 20

HeavyCosts == {LightCost, HeavyCost}

\* the content scripts that can be started in a frame of the page
HeavyLimiters ==
    {init(NewLimiter(variant, isIframe, FALSE), RafStore(60), "normal-website.com",
          gameMode) :
        variant \in {"advanced", "baseline"}, isIframe \in BOOLEAN,
        gameMode \in BOOLEAN}

HeavyLoaded(loads) ==
    [op |-> "load", cost |-> 0, changed |-> FALSE, frames |-> 0, loads |-> loads,
     signals |-> 0, wasFlagged |-> FALSE]

HeavyInit ==
    /\ IdleCfg /\ IdleExt /\ IdleRaf /\ IdleAux
    /\ lim \in HeavyLimiters
    /\ sent = 0
    /\ ev = HeavyLoaded(1)

\* a wrapped callback runs and its duration is analysed
HeavyFrame ==
    /\ ev.frames < MaxFrames
    /\ \E cost \in HeavyCosts, throws \in BOOLEAN :
          LET changes == ev.cost # 0 /\ cost # ev.cost
              r == executeCallback(lim, (ev.frames + 1) * FramePeriod, cost, throws)
          IN  /\ changes => ~ev.changed
              /\ lim' = r.lim
              /\ sent' = sent + r.signals
              /\ ev' = [ev EXCEPT !.op = "frame", !.cost = cost,
                                  !.changed = @ \/ changes,
                                  !.frames = @ + 1, !.signals = r.signals,
                                  !.wasFlagged = lim.isPageFlagged]
    /\ UNCHANGED <<auxVars, cfgVars, extVars, rafVars>>

\* the page is loaded again: a new content script, a new limiter
HeavyReload ==
    /\ ev.loads < MaxLoads
    /\ lim' \in HeavyLimiters
    /\ sent' = 0
    /\ ev' = HeavyLoaded(ev.loads + 1)
    /\ UNCHANGED <<auxVars, cfgVars, extVars, rafVars>>

HeavyNext == HeavyFrame \/ HeavyReload

SpecHeavy == HeavyInit /\ [][HeavyNext]_vars

\* C10: in one page load at most one PAGE_IS_HEAVY is sent, it is sent when
\* the page is flagged, and a frame analysed after the flag sends nothing.
Thm_C10 ==
    /\ sent <= 1
    /\ (sent = 1) <=> lim.isPageFlagged
    /\ (ev.op = "frame" /\ ev.wasFlagged) => ev.signals = 0

\* a heavy frame is analysed after the signal of this load was sent
Wit_C10 ==
    /\ ev.op = "frame" /\ ev.wasFlagged /\ ev.cost = HeavyCost
    /\ sent = 1
    /\ 10 * lim.durationSum > 10 * heavyAvgThreshold * Len(lim.frameDurations)

loadedSettings(data) ==
    [globalDisabled |-> data.globalDisabled,
     autoModeMasterEnable |-> NullishTrue(data.autoModeMasterEnable),
     applyInFrames |-> data.applyInFrames,
     globalConfig |-> IF data.globalConfig.present THEN data.globalConfig.config
                      ELSE [enabled |-> TRUE, value |-> 60, adaptive |-> FALSE,
                            priority |-> "none"],
     hostConfig |-> NoConfig,
     autoModeConfigs |-> data.autoModeConfigs,
     profiles |-> data.profiles,
     activeProfileId |-> data.activeProfileId,
     aiOptimization |-> IF data.aiOptimization = "unset" THEN "on"
                        ELSE data.aiOptimization,
     batteryOptimization |-> NullishTrue(data.batteryOptimization),
     thermalProtection |-> TRUE, maxCpuUsage |-> 80,
     gamingMode |-> FALSE, gameDetection |-> TRUE]

\* loadAndCacheSettings of background.js (lines 5-12) and part_006 (24-31):
\* the global configuration is read from the key `global`
legacySettings(data) ==
    [loadedSettings(data) EXCEPT
        !.globalConfig = IF data.global.present THEN data.global.config
                         ELSE [enabled |-> TRUE, value |-> 60, adaptive |-> FALSE,
                               priority |-> "none"],
        !.hostConfig = data.hostConfig,
        !.profiles = <<>>, !.activeProfileId = "null"]

\* the active profile always taken as the first of the array
resolveActiveProfile_First(profiles, activeProfileId) ==
    IF profiles = <<>> THEN 0 ELSE 1

\* background.ts 208-214: the index of the active profile, 0 for null
resolveActiveProfile(profiles, activeProfileId) ==
    LET named == {i \in 1..Len(profiles) : profiles[i].id = activeProfileId}
        first == IF profiles = <<>> THEN 0 ELSE 1
    IN  IF activeProfileId \notin {"null", ""}
        THEN IF named # {} THEN CHOOSE i \in named : \A j \in named : i <= j
             ELSE first
        ELSE first

\* getConfigForUrl of background.js (lines 15-30) and part_006 (34-49)
legacyGetConfigForUrl(cache, url, tabIsActive, tabIsAudible) ==
    LET plain(c) == [enabled |-> TRUE, value |-> c, adaptive |-> FALSE,
                     priority |-> "none"]
    IN  IF ~UrlParses(url) THEN cache.globalConfig
        ELSE
        LET host == Hostname(url)
            hit == {i \in 1..Len(cache.autoModeConfigs) :
                        Includes(host, cache.autoModeConfigs[i].domain)}
        IN  IF cache.autoModeMasterEnable /\ ~tabIsActive /\ tabIsAudible
            THEN plain(5)
            ELSE IF cache.autoModeMasterEnable /\ hit # {}
            THEN plain(cache.autoModeConfigs[CHOOSE i \in hit : \A j \in hit : i <= j].fps)
            ELSE IF cache.hostConfig.present THEN cache.hostConfig.config
            ELSE cache.globalConfig

NoMessage ==
    [type |-> "none",
     config |-> NoConfig,
     data |-> [present |-> FALSE, config |-> NoConfig.config, adaptiveMode |-> "unset"]]

\* the message of updateTabConfig (background.ts 422-434)
configUpdatedMessage(config, cache) ==
    [type |-> "CONFIG_UPDATED",
     config |-> NoConfig,
     data |-> [present |-> TRUE, config |-> config,
               adaptiveMode |-> cache.aiOptimization]]

\* the message of updateTab (background.js 35; part_006 57)
updateConfigMessage(config) ==
    [type |-> "UPDATE_CONFIG",
     config |-> [present |-> TRUE, config |-> config],
     data |-> NoMessage.data]

\* the onMessage listener of the content script (content.ts 521-539;
\* part_010 96-102; part_011 51-57)
listener(l, message) ==
    IF message.type = "UPDATE_CONFIG"
    THEN LET l1 == update(l, message.config.config, NoPageMetrics)
         IN  IF l.variant = "advanced" THEN [l1 EXCEPT !.adaptiveMode = FALSE] ELSE l1
    ELSE l

\* the switch of the listener has a case for this message type
listenerHandles(message) == message.type = "UPDATE_CONFIG"

(***************************************************************************)
(* SpecExt: the user changes the store from the popup and the options      *)
(* page, the background reloads and pushes, the tab's content script       *)
(* receives, and the page may be loaded again.  The tab shows ExtUrl, is   *)
(* active and not audible.                                                 *)
(***************************************************************************)
MaxUserOps == 2

ExtUrl == "https://normal-website.com"

ExtHost == Hostname(ExtUrl)

\* what getSystemInfo returns on a healthy machine
ExtSystem == [HotSystem EXCEPT !.thermal = "normal"]

\* the AI engine after initializeServices, nothing learned yet
ExtEngine == [initialized |-> TRUE, aiOptimization |-> TRUE, learning |-> {}]

ExtClock == 930

\* the profile created by the popup's addProfile (popup.ts 751-759)
PopupProfile ==
    [present |-> TRUE, id |-> "3", hasGlobalConfig |-> TRUE,
     globalConfig |-> [enabled |-> TRUE, value |-> 60, adaptive |-> FALSE,
                       priority |-> "none"],
     autoModeConfigs |-> <<>>]

\* the background script and the content script built with it
ExtBuilds ==
    {<<"background.ts", "advanced">>, <<"background.js", "baseline">>,
     <<"background.js", "advanced">>, <<"part_006", "simple">>}

\* the stores the extension starts from: no profile or two, and an
\* activeProfileId that is null, names the second profile or names none
ExtStores ==
    {[EmptyStore EXCEPT !.profiles = ps, !.activeProfileId = id] :
        ps \in {<<>>, <<FixtureProfile, CondProfile>>}, id \in {"null", "2", "9"}}

\* popup.ts, with the profile selector, is built with background.ts;
\* popup.js goes with the other two
ExtPopupTs == build = "background.ts"

\* the cache a reload computes from the data it read
ExtCacheFor(b, data) ==
    IF b = "background.ts" THEN loadedSettings(data) ELSE legacySettings(data)

ExtActiveFor(b, data) ==
    IF b = "background.ts"
    THEN resolveActiveProfile(loadedSettings(data).profiles,
                              loadedSettings(data).activeProfileId)
    ELSE 0

ExtProfile ==
    IF activeProfile = 0 THEN NoProfile ELSE settingsCache.profiles[activeProfile]

\* the tab and what the background's services report while it is pushed to:
\* no performance data, no analytics
ExtTab ==
    [url |-> ExtUrl, active |-> TRUE, audible |-> FALSE, perf |-> NoPerf,
     analytics |-> NoAnalytics, system |-> ExtSystem, ai |-> ExtEngine,
     hhmm |-> ExtClock]

\* the configuration the background computes for the tab
ExtConfig ==
    IF build = "background.ts"
    THEN getConfigForUrl(cfgIn.url, cfgIn.active, cfgIn.audible, ExtProfile,
                         settingsCache, cfgIn.perf, cfgIn.analytics, cfgIn.system,
                         cfgIn.ai, cfgIn.hhmm)
    ELSE legacyGetConfigForUrl(settingsCache, cfgIn.url, cfgIn.active, cfgIn.audible)

\* sendMessage to the tab: updateTabConfig (background.ts 422-436),
\* updateTab (background.js 35), and part_006 54 returning before it
ExtSend(queue, config) ==
    IF build = "background.ts"
    THEN Append(queue, configUpdatedMessage(config, settingsCache))
    ELSE IF build = "part_006" /\ settingsCache.globalDisabled
    THEN queue
    ELSE Append(queue, updateConfigMessage(config))

ExtInit ==
    /\ IdleRaf /\ IdleAux
    /\ cfgIn = ExtTab /\ cfgOut = "idle" /\ cfgStats = 0
    /\ \E b \in ExtBuilds, st \in ExtStores, isIframe \in BOOLEAN :
          /\ b[1] # "background.ts" => (st.profiles = <<>> /\ st.activeProfileId = "null")
          /\ build = b[1]
          /\ store = st
          /\ settingsCache = ExtCacheFor(b[1], st)
          /\ activeProfile = ExtActiveFor(b[1], st)
          /\ lim = init(NewLimiter(b[2], isIframe, FALSE), st, ExtHost, FALSE)
    /\ tasks = <<>>
    /\ inflight = <<>>
    /\ ops = 0
    /\ sent = 0
    /\ ev = [op |-> "start", loads |-> 1, msg |-> NoMessage, handled |-> FALSE]

\* chrome.storage.local.set with a change: onChanged starts a listener task
StoreSet(newStore) ==
    /\ ops < MaxUserOps
    /\ newStore # store
    /\ store' = newStore
    /\ ops' = ops + 1
    /\ tasks' = Append(tasks, [pc |-> "get", data |-> EmptyStore])
    /\ ev' = [ev EXCEPT !.op = "set"]
    /\ UNCHANGED <<auxVars, build, settingsCache, activeProfile, inflight, lim, sent,
                   cfgVars, rafVars>>

\* the master toggle (popup.ts 41-46; background.ts 910-911)
PopupToggleMaster == StoreSet([store EXCEPT !.globalDisabled = ~@])

\* the sub-frame checkbox of the options page (options.ts 21-25)
OptionsSetApplyInFrames == StoreSet([store EXCEPT !.applyInFrames = ~@])

\* saveSiteSettings (popup.ts 494-512) under the key globalConfig or the
\* host; popup.js 25-28 writes the key `global` or the host
PopupSaveSiteSettings ==
    \E key \in {IF ExtPopupTs THEN "globalConfig" ELSE "global", "host"},
       enabled \in BOOLEAN :
        LET saved == [present |-> TRUE,
                      config |-> [enabled |-> enabled, value |-> 30,
                                  adaptive |-> key # "global",
                                  priority |-> IF key = "global" THEN "none"
                                               ELSE "balanced"]]
        IN  StoreSet(IF key = "globalConfig" THEN [store EXCEPT !.globalConfig = saved]
                     ELSE IF key = "global" THEN [store EXCEPT !.global = saved]
                     ELSE [store EXCEPT !.hostConfig = saved])

\* switchProfile (popup.ts 739-745): the options of the select are the
\* stored profiles and "Default Profile", whose value is the empty string
PopupSwitchProfile ==
    /\ ExtPopupTs
    /\ \E id \in {""} \cup {store.profiles[i].id : i \in 1..Len(store.profiles)} :
        StoreSet([store EXCEPT !.activeProfileId = id])

\* addProfile (popup.ts 747-772)
PopupAddProfile ==
    /\ ExtPopupTs
    /\ \A i \in 1..Len(store.profiles) : store.profiles[i].id # PopupProfile.id
    /\ StoreSet([store EXCEPT !.profiles = Append(@, PopupProfile),
                              !.activeProfileId = PopupProfile.id])

\* deleteProfile (popup.ts 788-810)
PopupDeleteProfile ==
    /\ ExtPopupTs
    /\ \E id \in {store.profiles[i].id : i \in 1..Len(store.profiles)} :
        LET profiles == SelectSeq(store.profiles, LAMBDA q : q.id # id)
        IN  StoreSet([store EXCEPT !.profiles = profiles,
                                   !.activeProfileId = IF profiles = <<>> THEN "null"
                                                       ELSE profiles[1].id])

\* `await chrome.storage.local.get(null)` (background.ts 128; background.js 4)
BgGet ==
    \E i \in 1..Len(tasks) :
        /\ tasks[i].pc = "get"
        /\ tasks' = [tasks EXCEPT ![i] = [pc |-> "assign", data |-> store]]
        /\ ev' = [ev EXCEPT !.op = "get"]
        /\ UNCHANGED <<auxVars, build, store, settingsCache, activeProfile, inflight, ops,
                       lim, sent, cfgVars, rafVars>>

\* the rest of loadAndCacheSettings (background.ts 130-214; background.js 5-12)
BgAssign ==
    \E i \in 1..Len(tasks) :
        /\ tasks[i].pc = "assign"
        /\ settingsCache' = ExtCacheFor(build, tasks[i].data)
        /\ activeProfile' = ExtActiveFor(build, tasks[i].data)
        /\ tasks' = [tasks EXCEPT ![i].pc = "push"]
        /\ ev' = [ev EXCEPT !.op = "assign"]
        /\ UNCHANGED <<auxVars, build, store, inflight, ops, lim, sent, cfgVars, rafVars>>

\* updateAllTabs and updateTabConfig (background.ts 1042-1057, 400-456);
\* updateTab (background.js 32-36; part_006 51-69)
BgPush ==
    \E i \in 1..Len(tasks) :
        /\ tasks[i].pc = "push"
        /\ tasks' = SubSeq(tasks, 1, i - 1) \o SubSeq(tasks, i + 1, Len(tasks))
        /\ inflight' = ExtSend(inflight, ExtConfig)
        /\ ev' = [ev EXCEPT !.op = "push"]
        /\ UNCHANGED <<auxVars, build, store, settingsCache, activeProfile, ops, lim, sent,
                       cfgVars, rafVars>>

\* the message reaches the content script of the tab
Deliver ==
    /\ inflight # <<>>
    /\ lim.listening
    /\ lim' = listener(lim, Head(inflight))
    /\ inflight' = Tail(inflight)
    /\ ev' = [ev EXCEPT !.op = "deliver", !.msg = Head(inflight),
                        !.handled = listenerHandles(Head(inflight))]
    /\ UNCHANGED <<auxVars, build, store, settingsCache, activeProfile, tasks, ops, sent,
                   cfgVars, rafVars>>

\* the page is loaded again: a new content script reads the store; a
\* message on its way to the old document is lost or reaches the new one
PageLoad ==
    /\ ev.loads < MaxLoads
    /\ lim' = init(NewLimiter(lim.variant, lim.isIframe, FALSE), store, ExtHost, FALSE)
    /\ inflight' \in {inflight, <<>>}
    /\ ev' = [ev EXCEPT !.op = "load", !.loads = @ + 1]
    /\ UNCHANGED <<auxVars, build, store, settingsCache, activeProfile, tasks, ops, sent,
                   cfgVars, rafVars>>

ExtNext ==
    \/ PopupToggleMaster \/ OptionsSetApplyInFrames \/ PopupSaveSiteSettings
    \/ PopupSwitchProfile \/ PopupAddProfile \/ PopupDeleteProfile
    \/ BgGet \/ BgAssign \/ BgPush \/ Deliver \/ PageLoad

SpecExt == ExtInit /\ [][ExtNext]_vars

\* C1 as stated: a configuration pushed by the background orchestrator and
\* delivered to a live content script is applied: the limiter's config is
\* the pushed one and the wrapper is not installed when it says disabled.
Orig_C1 ==
    (build = "background.ts" /\ ev.op = "deliver" /\ ev.msg.data.present) =>
        /\ lim.config = ev.msg.data.config
        /\ lim.installed => ev.msg.data.config.enabled

\* C6: since the last reload the active profile is the one named by
\* activeProfileId when the cached array has it, otherwise the first of the
\* array, and none exactly when the array is empty; the active profile is
\* one index of the array, so no two profiles are active.
Thm_C6 ==
    build = "background.ts" =>
        LET profiles == settingsCache.profiles
            named == {i \in 1..Len(profiles) :
                         profiles[i].id = settingsCache.activeProfileId}
        IN  /\ activeProfile \in 0..Len(profiles)
            /\ (activeProfile = 0) <=> (profiles = <<>>)
            /\ named # {} => activeProfile \in named
            /\ (named = {} /\ profiles # <<>>) => activeProfile = 1
            /\ Cardinality({i \in 1..Len(profiles) : i = activeProfile}) <= 1
            /\ activeProfile = 0 =>
                  [ExtConfig EXCEPT !.enabled = TRUE] = fallbackConfig

\* a reload finds activeProfileId naming the second of two profiles
Wit_C6 ==
    /\ build = "background.ts" /\ ev.op = "assign"
    /\ Len(settingsCache.profiles) = 2
    /\ settingsCache.activeProfileId = settingsCache.profiles[2].id
    /\ activeProfile = 2

\* C9 as stated: after an update handled by the content script, with the
\* background idle and its cache equal to the store, the wrapper is
\* installed iff the config is enabled, the page is not a sub-frame or
\* applyInFrames is set, and the extension is not globally disabled.
Orig_C9 ==
    (/\ ev.op = "deliver" /\ ev.handled
     /\ tasks = <<>> /\ inflight = <<>>
     /\ settingsCache = ExtCacheFor(build, store))
        => (lim.installed <=>
               (/\ lim.config.enabled
                /\ ~lim.isIframe \/ store.applyInFrames
                /\ ~store.globalDisabled))

\* no auto-mode rule of the store or of the active profile applies to the page
ExtNoRuleApplies ==
    /\ \A i \in 1..Len(store.autoModeConfigs) :
          ~Includes(ExtHost, store.autoModeConfigs[i].domain)
    /\ activeProfile # 0 =>
          findAutoConfig(ExtProfile.autoModeConfigs, ExtHost, cfgIn.perf, cfgIn.system,
                         cfgIn.hhmm) = 0

\* C15 as stated: when the store holds a per-hostname override for the
\* page's hostname and no auto-mode rule applies to the page, the page's
\* effective configuration is the override.  Stated with the background
\* idle, its cache loaded from the store and no message on its way.
Orig_C15 ==
    (/\ store.hostConfig.present
     /\ ExtNoRuleApplies
     /\ tasks = <<>> /\ inflight = <<>>
     /\ settingsCache = ExtCacheFor(build, store))
        => /\ lim.config.enabled = store.hostConfig.config.enabled
           /\ lim.config.value = store.hostConfig.config.value

(***************************************************************************)
(* The tab suspender (background.ts 507-580).  Times are whole minutes;    *)
(* the code's thresholds of 5, 10 and 30 minutes and the timeout of        *)
(* suspenderTimeout minutes are compared in the same unit.                 *)
(*                                                                         *)
(* A tab is [url, active, audible, pinned, discarded, autoDiscardable,     *)
(* since], `since` being the time it was last activated or, for a tab      *)
(* never activated, opened.  A TabAnalytics is [present, lastActive,       *)
(* totalTime, classType, media].                                           *)
(***************************************************************************)
NoTabAnalytics ==
    [present |-> FALSE, lastActive |-> 0, totalTime |-> 0, classType |-> "unknown",
     media |-> FALSE]

\* isTabImportant (background.ts 560-569)
isTabImportant(analytics, now) ==
    \/ now - analytics.lastActive < 5
    \/ analytics.classType = "video" \/ analytics.media
    \/ analytics.totalTime > 30
    \/ analytics.classType = "game"

\* AIEngine.shouldSuspendTab (part_011 496-543); systemInfo is
\* [present, memoryUsage]
aiShouldSuspendTab(ai, url, analytics, systemInfo, now, hour) ==
    IF ~isReady(ai) \/ url = "" THEN TRUE
    ELSE IF ~UrlParses(url) THEN TRUE
    ELSE IF /\ analytics.present
            /\ \/ analytics.totalTime > 30
               \/ now - analytics.lastActive < 10
               \/ analytics.classType = "game"
    THEN FALSE
    ELSE IF /\ hasLearning(ai, Hostname(url))
            /\ \E i \in 1..Len(learningFor(ai, Hostname(url)).contextualFactors) :
                  LET d == learningFor(ai, Hostname(url)).contextualFactors[i].timeOfDay
                               - hour
                  IN  d <= 1 /\ -d <= 1
    THEN FALSE
    ELSE IF systemInfo.present /\ systemInfo.memoryUsage < 70 THEN FALSE
    ELSE TRUE

\* shouldSuspendTab (background.ts 574-580)
shouldSuspendTab(cache, srv, url, analytics, now, hour) ==
    IF ~cache.aiOptimization \/ ~isReady(srv.ai) THEN TRUE
    ELSE aiShouldSuspendTab(srv.ai, url, analytics, srv.systemInfo, now, hour)

\* suspenderWhitelist.some(domain => tab.url.includes(domain))
isWhitelisted(url, whitelist) ==
    url # "" /\ \E k \in 1..Len(whitelist) : Includes(url, whitelist[k])

\* the filter of chrome.tabs.query (lines 515-519)
matchesQuery(tab) ==
    /\ StartsWith(tab.url, "http://") \/ StartsWith(tab.url, "https://")
    /\ ~tab.discarded
    /\ tab.autoDiscardable

(***************************************************************************)
(* SpecSus: the suspender alarm fires while the user activates, pins and   *)
(* unpins tabs, tabs start and stop playing audio, the options page        *)
(* changes the suspender settings and time passes.  checkAndSuspendTabs    *)
(* gives way to these events where it awaits the browser: at               *)
(* chrome.tabs.query, at chrome.tabs.discard and at showNotification.      *)
(* `sweep` holds the call's locals: the settings destructured at line 508, *)
(* `now` of line 514, the tabs the query returned and the loop index.      *)
(* At the start the background has seen no activation (its map is empty),  *)
(* or has seen the user visit tab 2 and come back to tab 1; tab 3 was      *)
(* opened in the background and never shown.                               *)
(* `sweep.quiet` says that no event happened since the sweep started, and  *)
(* `sweep.last` is the last discard the browser performed with the tab,    *)
(* the cache and the clock as they were at that moment.                    *)
(***************************************************************************)
MaxTabs == 3

MaxTabEvents == 2

SusStart == 10

MaxMinutes == 11

SusHour == 9

SusTabIds == 1..MaxTabs

SusUrls == {"https://mail.example.com/inbox", "https://news.site/story",
            "chrome://settings"}

SusWhitelists == {<<>>, <<"mail.example">>}

SusTimeouts == {1, 2}

SusTab(url, active, autoDiscardable) ==
    [url |-> url, active |-> active, audible |-> FALSE, pinned |-> FALSE,
     discarded |-> FALSE, autoDiscardable |-> autoDiscardable, since |-> 0]

SusAnalytics ==
    {NoTabAnalytics,
     [NoTabAnalytics EXCEPT !.present = TRUE, !.classType = "other"],
     [NoTabAnalytics EXCEPT !.present = TRUE, !.classType = "game"]}

\* the AI engine not initialised, ready with nothing learned, ready with a
\* morning habit learned for news.site; the memory usage last measured
SusServices ==
    {[ai |-> [initialized |-> FALSE, aiOptimization |-> TRUE, learning |-> {}],
      systemInfo |-> [present |-> FALSE, memoryUsage |-> 0]],
     [ai |-> ExtEngine, systemInfo |-> [present |-> TRUE, memoryUsage |-> 90]],
     [ai |-> ExtEngine, systemInfo |-> [present |-> TRUE, memoryUsage |-> 50]],
     [ai |-> [ExtEngine EXCEPT !.learning =
                 {[GameComLearning EXCEPT !.domain = "news.site"]}],
      systemInfo |-> [present |-> TRUE, memoryUsage |-> 90]]}

NoDiscard == [op |-> "none", id |-> 0, tab |-> SusTab("", FALSE, FALSE),
              cache |-> "none", at |-> 0]

SweepIdle ==
    [pc |-> "idle", suspenderEnable |-> FALSE, suspenderTimeout |-> 0,
     suspenderWhitelist |-> <<>>, now |-> 0, found |-> <<>>, i |-> 0,
     quiet |-> FALSE, finished |-> FALSE, tabsSuspended |-> 0, last |-> NoDiscard]

SusInit ==
    /\ IdleCfg /\ IdleLim /\ IdleRaf /\ IdleLater
    /\ build = "background.ts" /\ store = "idle" /\ activeProfile = 0
    /\ tasks = <<>> /\ inflight = <<>> /\ ops = 0
    /\ settingsCache \in [suspenderEnable : BOOLEAN, suspenderTimeout : {1},
                          suspenderWhitelist : SusWhitelists,
                          aiOptimization : {TRUE}, notify : BOOLEAN]
    /\ \E url \in SusUrls, auto \in BOOLEAN, visited \in BOOLEAN :
          /\ tabs = [t \in SusTabIds |->
                       IF t = 1 THEN SusTab("https://news.site/story", TRUE, TRUE)
                       ELSE IF t = 2
                       THEN [SusTab(url, FALSE, TRUE) EXCEPT
                                !.since = IF visited THEN SusStart - 2 ELSE 0]
                       ELSE SusTab("https://news.site/story", FALSE, auto)]
          /\ tabLastActivated =
                 [t \in SusTabIds |->
                     IF ~visited THEN 0
                     ELSE IF t = 1 THEN SusStart - 2
                     ELSE IF t = 2 THEN SusStart - 3 ELSE 0]
    /\ \E a \in SusAnalytics :
          tabAnalyticsMap = [t \in SusTabIds |-> IF t = 2 THEN a ELSE NoTabAnalytics]
    /\ services \in SusServices
    /\ sweep = SweepIdle
    /\ dateNow = SusStart

\* `this.tabLastActivated.get(tab.id) || now` (line 524)
lastActivatedOr(lastActivated, id, now) ==
    IF lastActivated[id] # 0 THEN lastActivated[id] ELSE now

\* lines 522-536 for one tab of the query's result: the loop goes on to
\* chrome.tabs.discard
sweepWants(sw, e, lastActivated, analyticsMap, cache, srv, clockNow) ==
    /\ ~(e.tab.active \/ e.tab.audible \/ e.tab.pinned)
    /\ ~isWhitelisted(e.tab.url, sw.suspenderWhitelist)
    /\ ~(analyticsMap[e.id].present /\ isTabImportant(analyticsMap[e.id], clockNow))
    /\ sw.now - lastActivatedOr(lastActivated, e.id, sw.now) > sw.suspenderTimeout
    /\ shouldSuspendTab(cache, srv, e.tab.url, analyticsMap[e.id], clockNow, SusHour)

\* the call has returned
sweepFinished(sw) == [sw EXCEPT !.pc = "idle", !.i = 0, !.finished = TRUE]

\* the for loop (lines 521-551) from index i up to its next await
RECURSIVE sweepLoop(_, _, _, _, _, _, _)
sweepLoop(sw, i, lastActivated, analyticsMap, cache, srv, clockNow) ==
    IF i > Len(sw.found) THEN sweepFinished(sw)
    ELSE IF sweepWants(sw, sw.found[i], lastActivated, analyticsMap, cache, srv, clockNow)
    THEN [sw EXCEPT !.pc = "discard", !.i = i]
    ELSE sweepLoop(sw, i + 1, lastActivated, analyticsMap, cache, srv, clockNow)

\* the tabs chrome.tabs.query resolves with, in id order
RECURSIVE queryTabs(_, _)
queryTabs(all, t) ==
    IF t > MaxTabs THEN <<>>
    ELSE (IF matchesQuery(all[t]) THEN <<[id |-> t, tab |-> all[t]]>> ELSE <<>>)
            \o queryTabs(all, t + 1)

\* the TAB_SUSPENDER alarm: checkAndSuspendTabs up to chrome.tabs.query
\* (lines 508-519)
Alarm ==
    /\ sweep.pc = "idle"
    /\ sweep' = IF ~settingsCache.suspenderEnable
                THEN [sweepFinished(sweep) EXCEPT !.quiet = TRUE, !.suspenderEnable = FALSE]
                ELSE [sweep EXCEPT !.pc = "query", !.quiet = TRUE, !.finished = FALSE,
                                   !.suspenderEnable = TRUE,
                                   !.suspenderTimeout = settingsCache.suspenderTimeout,
                                   !.suspenderWhitelist = settingsCache.suspenderWhitelist,
                                   !.now = dateNow, !.found = <<>>, !.i = 0]
    /\ UNCHANGED <<tabs, tabLastActivated, tabAnalyticsMap, services, dateNow,
                   cfgVars, extVars, limVars, rafVars, laterVars>>

\* chrome.tabs.query resolves and the loop runs up to its first discard
QueryDone ==
    /\ sweep.pc = "query"
    /\ sweep' = sweepLoop([sweep EXCEPT !.found = queryTabs(tabs, 1)], 1,
                          tabLastActivated, tabAnalyticsMap, settingsCache, services,
                          dateNow)
    /\ UNCHANGED <<tabs, tabLastActivated, tabAnalyticsMap, services, dateNow,
                   cfgVars, extVars, limVars, rafVars, laterVars>>

\* lines 537-548 after a discard that resolved
afterDiscard(sw, lastActivated, analyticsMap, cache, srv, clockNow) ==
    IF cache.notify
    THEN [sw EXCEPT !.pc = "notify", !.tabsSuspended = @ + 1]
    ELSE sweepLoop([sw EXCEPT !.tabsSuspended = @ + 1], sw.i + 1, lastActivated,
                   analyticsMap, cache, srv, clockNow)

\* chrome.tabs.discard settles.  The browser discards the tab unless it is
\* the active one; for an active tab the promise either rejects, which the
\* catch of line 552 ends the sweep on, or resolves without a discard.
DiscardDone ==
    /\ sweep.pc = "discard"
    /\ LET id == sweep.found[sweep.i].id
       IN  IF tabs[id].active
           THEN /\ tabs' = tabs
                /\ sweep' \in {sweepFinished(sweep),
                               afterDiscard(sweep, tabLastActivated, tabAnalyticsMap,
                                            settingsCache, services, dateNow)}
           ELSE /\ tabs' = [tabs EXCEPT ![id].discarded = TRUE]
                /\ sweep' = afterDiscard(
                               [sweep EXCEPT !.last = [op |-> "discarded", id |-> id,
                                                       tab |-> tabs[id],
                                                       cache |-> settingsCache,
                                                       at |-> dateNow]],
                               tabLastActivated, tabAnalyticsMap, settingsCache,
                               services, dateNow)
    /\ UNCHANGED <<tabLastActivated, tabAnalyticsMap, services, dateNow,
                   cfgVars, extVars, limVars, rafVars, laterVars>>

\* showNotification resolves and the loop goes on
NotifyDone ==
    /\ sweep.pc = "notify"
    /\ sweep' = sweepLoop(sweep, sweep.i + 1, tabLastActivated, tabAnalyticsMap,
                          settingsCache, services, dateNow)
    /\ UNCHANGED <<tabs, tabLastActivated, tabAnalyticsMap, services, dateNow,
                   cfgVars, extVars, limVars, rafVars, laterVars>>

\* an event outside the sweep: the sweep is no longer undisturbed
SusEvent ==
    /\ ops < MaxTabEvents
    /\ ops' = ops + 1
    /\ sweep' = [sweep EXCEPT !.quiet = FALSE]

\* lastActive refreshed on an existing TabAnalytics (lines 736-741, 439-442)
touched(analyticsMap, id, now) ==
    IF analyticsMap[id].present
    THEN [analyticsMap EXCEPT ![id].lastActive = now]
    ELSE analyticsMap

\* the user switches to tab id; tabs.onActivated (lines 732-742).  A
\* discarded tab is loaded again when it is shown.
TabActivated ==
    /\ SusEvent
    /\ \E id \in SusTabIds :
          /\ ~tabs[id].active
          /\ tabs' = [t \in SusTabIds |->
                        IF t = id
                        THEN [tabs[t] EXCEPT !.active = TRUE, !.discarded = FALSE,
                                             !.since = dateNow]
                        ELSE IF tabs[t].active
                        THEN [tabs[t] EXCEPT !.active = FALSE, !.since = dateNow]
                        ELSE tabs[t]]
          /\ tabLastActivated' = [tabLastActivated EXCEPT ![id] = dateNow]
          /\ tabAnalyticsMap' = touched(tabAnalyticsMap, id, dateNow)
    /\ UNCHANGED <<services, dateNow, settingsCache, build, store, activeProfile,
                   tasks, inflight, cfgVars, limVars, rafVars, laterVars>>

\* a loaded tab starts or stops playing audio; tabs.onUpdated calls
\* updateTabConfig for an http(s) tab (lines 744-748, 405, 438-442)
TabAudible ==
    /\ SusEvent
    /\ \E id \in SusTabIds :
          /\ ~tabs[id].discarded
          /\ tabs' = [tabs EXCEPT ![id].audible = ~@]
          /\ tabAnalyticsMap' = IF StartsWith(tabs[id].url, "http")
                                THEN touched(tabAnalyticsMap, id, dateNow)
                                ELSE tabAnalyticsMap
    /\ UNCHANGED <<tabLastActivated, services, dateNow, settingsCache, build, store,
                   activeProfile, tasks, inflight, cfgVars, limVars, rafVars, laterVars>>

\* the user pins or unpins a tab; the onUpdated listener does nothing for it
TabPinned ==
    /\ SusEvent
    /\ \E id \in SusTabIds : tabs' = [tabs EXCEPT ![id].pinned = ~@]
    /\ UNCHANGED <<tabLastActivated, tabAnalyticsMap, services, dateNow, settingsCache,
                   build, store, activeProfile, tasks, inflight, cfgVars, limVars,
                   rafVars, laterVars>>

\* the options page changes one suspender setting (options.ts 26-45) and the
\* background reloads its cache (background.ts 143-146)
SuspenderSettingsChanged ==
    /\ SusEvent
    /\ \E c \in [suspenderEnable : BOOLEAN, suspenderTimeout : SusTimeouts,
                 suspenderWhitelist : SusWhitelists,
                 aiOptimization : {settingsCache.aiOptimization},
                 notify : {settingsCache.notify}] :
          /\ Cardinality({f \in {"suspenderEnable", "suspenderTimeout",
                                 "suspenderWhitelist"} : c[f] # settingsCache[f]}) = 1
          /\ settingsCache' = c
    /\ UNCHANGED <<tabs, tabLastActivated, tabAnalyticsMap, services, dateNow, build,
                   store, activeProfile, tasks, inflight, cfgVars, limVars, rafVars, laterVars>>

\* a minute passes
Tick ==
    /\ dateNow < MaxMinutes
    /\ dateNow' = dateNow + 1
    /\ sweep' = [sweep EXCEPT !.quiet = FALSE]
    /\ UNCHANGED <<tabs, tabLastActivated, tabAnalyticsMap, services,
                   cfgVars, extVars, limVars, rafVars, laterVars>>

SusNext ==
    \/ Alarm \/ QueryDone \/ DiscardDone \/ NotifyDone
    \/ TabActivated \/ TabAudible \/ TabPinned \/ SuspenderSettingsChanged \/ Tick

SpecSus == SusInit /\ [][SusNext]_vars

(* C12: the suspender never discards a tab that is active, audible, pinned  *)
(* or on a whitelisted domain, and discards nothing while the feature is    *)
(* turned off, for every sequence of sweeps, tab events and settings        *)
(* changes.  `sweep.last` holds the tab and the settings as they were when  *)
(* the browser carried out the discard.                                     *)
Orig_C12 ==
    sweep.last.op = "discarded" =>
        /\ ~sweep.last.tab.active
        /\ ~sweep.last.tab.audible
        /\ ~sweep.last.tab.pinned
        /\ ~isWhitelisted(sweep.last.tab.url, sweep.last.cache.suspenderWhitelist)
        /\ sweep.last.cache.suspenderEnable

(* C13: with the suspender enabled, a sweep discards every loaded HTTP(S)   *)
(* tab that is non-active, non-audible, non-pinned, not whitelisted, not    *)
(* marked important and inactive for longer than suspenderTimeout minutes,  *)
(* provided the suspend/keep decision is affirmative.  Stated of a sweep    *)
(* that ran to its end with no tab event, settings change or minute         *)
(* passing since it started.                                                *)
Orig_C13 ==
    (sweep.pc = "idle" /\ sweep.finished /\ sweep.quiet /\ settingsCache.suspenderEnable) =>
        \A t \in SusTabIds :
            ( /\ StartsWith(tabs[t].url, "http")
              /\ ~(tabs[t].active \/ tabs[t].audible \/ tabs[t].pinned)
              /\ ~isWhitelisted(tabs[t].url, settingsCache.suspenderWhitelist)
              /\ ~(tabAnalyticsMap[t].present /\ isTabImportant(tabAnalyticsMap[t], dateNow))
              /\ dateNow - tabs[t].since > settingsCache.suspenderTimeout
              /\ shouldSuspendTab(settingsCache, services, tabs[t].url,
                                  tabAnalyticsMap[t], dateNow, SusHour) )
            => tabs[t].discarded

(***************************************************************************)
(* The storage.onChanged listener of background.ts (lines 715-718) with    *)
(* several open tabs: loadAndCacheSettings, then updateAllTabs, which      *)
(* starts one updateTabConfig per tab (1042-1057).  Each updateTabConfig   *)
(* awaits its own getSystemInfo (line 408), a host query (585-596), and    *)
(* reads this.settingsCache and this.activeProfile when that resolves      *)
(* (410-419).  A listener invocation is one record of `cycles`; pc is the  *)
(* await it is suspended at.                                               *)
(***************************************************************************)
MaxChanges == 2
MaxCycTabs == 2

CycTabs == 1..MaxCycTabs

NoPush == [present |-> FALSE]

NewCycle ==
    [pc |-> "get", data |-> EmptyStore, tabPc |-> [t \in CycTabs |-> "idle"],
     pushed |-> [t \in CycTabs |-> NoPush]]

CycInit ==
    /\ IdleLim /\ IdleRaf /\ IdleSus /\ IdlePre /\ IdleDeb /\ IdleRel /\ IdleAi
    /\ IdleMore
    /\ cfgIn = ExtTab /\ cfgOut = "idle" /\ cfgStats = 0
    /\ build = "background.ts"
    /\ store \in ExtStores
    /\ settingsCache = loadedSettings(store)
    /\ activeProfile = resolveActiveProfile(loadedSettings(store).profiles,
                                            loadedSettings(store).activeProfileId)
    /\ tasks = <<>> /\ inflight = <<>> /\ ops = 0
    /\ cycles = <<>>

\* chrome.storage.local.set by the popup: the master toggle (popup.ts 41-46)
\* or the global FPS value (popup.ts 494-512); onChanged calls the listener,
\* which runs up to `await chrome.storage.local.get(null)` (line 128)
CycStoreChanged ==
    /\ ops < MaxChanges
    /\ ops' = ops + 1
    /\ \E fps \in {30, 60} :
          store' \in {[store EXCEPT !.globalDisabled = ~@],
                      [store EXCEPT !.globalConfig =
                          [present |-> TRUE,
                           config |-> [enabled |-> TRUE, value |-> fps,
                                       adaptive |-> TRUE, priority |-> "balanced"]]]}
    /\ store' # store
    /\ cycles' = Append(cycles, NewCycle)
    /\ UNCHANGED <<build, settingsCache, activeProfile, tasks, inflight,
                   cfgVars, limVars, rafVars, susVars, cycOthers>>

\* chrome.storage.local.get resolves with the store as it is then; the
\* reads of one API resolve in the order they were made
CycGet ==
    \E i \in 1..Len(cycles) :
        /\ cycles[i].pc = "get"
        /\ \A j \in 1..(i - 1) : cycles[j].pc # "get"
        /\ cycles' = [cycles EXCEPT ![i].pc = "assign", ![i].data = store]
        /\ UNCHANGED <<extVars, cfgVars, limVars, rafVars, susVars, cycOthers>>

\* the rest of loadAndCacheSettings (130-214), then updateAllTabs up to
\* `await chrome.tabs.query` (line 1044)
CycAssign ==
    \E i \in 1..Len(cycles) :
        /\ cycles[i].pc = "assign"
        /\ \A j \in 1..(i - 1) : cycles[j].pc \notin {"get", "assign"}
        /\ settingsCache' = loadedSettings(cycles[i].data)
        /\ activeProfile' = resolveActiveProfile(loadedSettings(cycles[i].data).profiles,
                                                 loadedSettings(cycles[i].data).activeProfileId)
        /\ cycles' = [cycles EXCEPT ![i].pc = "query"]
        /\ UNCHANGED <<build, store, tasks, inflight, ops, cfgVars, limVars, rafVars,
                       susVars, cycOthers>>

\* the query resolves; updateAllTabs awaits getSystemInfo (line 1045)
CycQuery ==
    \E i \in 1..Len(cycles) :
        /\ cycles[i].pc = "query"
        /\ cycles' = [cycles EXCEPT ![i].pc = "sysinfo"]
        /\ UNCHANGED <<extVars, cfgVars, limVars, rafVars, susVars, cycOthers>>

\* tabs.map (1047-1053): every updateTabConfig runs up to its own
\* `await this.getSystemInfo()` (line 408)
CycFanOut ==
    \E i \in 1..Len(cycles) :
        /\ cycles[i].pc = "sysinfo"
        /\ cycles' = [cycles EXCEPT ![i].pc = "tabs",
                                    ![i].tabPc = [t \in CycTabs |-> "sysinfo"]]
        /\ UNCHANGED <<extVars, cfgVars, limVars, rafVars, susVars, cycOthers>>

\* the configuration updateTabConfig computes for a tab from the cache as
\* it is now (lines 410-419)
CycConfig ==
    getConfigForUrl(cfgIn.url, cfgIn.active, cfgIn.audible, ExtProfile, settingsCache,
                    cfgIn.perf, cfgIn.analytics, cfgIn.system, cfgIn.ai, cfgIn.hhmm)

\* one tab's getSystemInfo resolves: the configuration is computed and
\* sent (410-436); the listener returns when every tab is done
CycTabConfig ==
    \E i \in 1..Len(cycles), t \in CycTabs :
        /\ cycles[i].pc = "tabs"
        /\ cycles[i].tabPc[t] = "sysinfo"
        /\ LET done == \A u \in CycTabs \ {t} : cycles[i].tabPc[u] = "sent"
           IN  cycles' = [cycles EXCEPT
                            ![i].tabPc[t] = "sent",
                            ![i].pushed[t] = [present |-> TRUE, cache |-> settingsCache,
                                              config |-> CycConfig],
                            ![i].pc = IF done THEN "done" ELSE "tabs"]
        /\ UNCHANGED <<extVars, cfgVars, limVars, rafVars, susVars, cycOthers>>

\* String.prototype.trim and toLowerCase on the characters of the model
UpperCase == "ABCDEFGHIJKLMNOPQRSTUVWXYZ"

LowerCase == "abcdefghijklmnopqrstuvwxyz"

RECURSIVE Trim(_)
Trim(str) ==
    IF Len(str) = 0 THEN str
    ELSE IF SubSeq(str, 1, 1) = " " THEN Trim(SubSeq(str, 2, Len(str)))
    ELSE IF SubSeq(str, Len(str), Len(str)) = " " THEN Trim(SubSeq(str, 1, Len(str) - 1))
    ELSE str

RECURSIVE ToLowerCase(_)
ToLowerCase(str) ==
    IF Len(str) = 0 THEN str
    ELSE LET c == SubSeq(str, 1, 1)
             k == IndexOf(UpperCase, c)
         IN  (IF k = 0 THEN c ELSE SubSeq(LowerCase, k, k))
                \o ToLowerCase(SubSeq(str, 2, Len(str)))

IsLetter(c) == Includes(LowerCase, c) \/ Includes(UpperCase, c)

\* isValidDomain (popup.ts 643-646): the regular expression
\* ^[a-zA-Z0-9][a-zA-Z0-9-]*[a-zA-Z0-9]*\.?[a-zA-Z]{2,}$ matches when some
\* prefix is an alphanumeric followed by alphanumerics and hyphens, and the
\* rest is an optional dot followed by two or more letters
isValidDomain(domain) ==
    \E j \in 1..Len(domain) :
        LET rest == SubSeq(domain, j + 1, Len(domain))
            suffix == IF StartsWith(rest, ".") THEN SubSeq(rest, 2, Len(rest)) ELSE rest
        IN  /\ IsLetter(SubSeq(domain, 1, 1)) \/ IsDigit(SubSeq(domain, 1, 1))
            /\ \A i \in 2..j : LET c == SubSeq(domain, i, i)
                                IN  IsLetter(c) \/ IsDigit(c) \/ c = "-"
            /\ Len(suffix) >= 2
            /\ \A i \in 1..Len(suffix) : IsLetter(SubSeq(suffix, i, i))

\* what the user types into the add-site form
CycDomains == {"", " Normal-Website.com ", "www.normal-website.com", "localhost:3000"}

\* handleAddSite and saveAutoModeList (popup.ts 614-641, 680-682); the
\* popup's list is the store's autoModeConfigs as read when it opened (150)
CycAddSite ==
    /\ ops < MaxChanges
    /\ \E input \in CycDomains :
          LET newDomain == ToLowerCase(Trim(input))
          IN  /\ newDomain # ""
              /\ isValidDomain(newDomain)
              /\ \A i \in 1..Len(store.autoModeConfigs) :
                    store.autoModeConfigs[i].domain # newDomain
              /\ store' = [store EXCEPT !.autoModeConfigs =
                                Append(@, [domain |-> newDomain, fps |-> 60])]
    /\ ops' = ops + 1
    /\ cycles' = Append(cycles, NewCycle)
    /\ UNCHANGED <<build, settingsCache, activeProfile, tasks, inflight,
                   cfgVars, limVars, rafVars, susVars, cycOthers>>

CycNext ==
    \/ CycStoreChanged \/ CycAddSite
    \/ CycGet \/ CycAssign \/ CycQuery \/ CycFanOut \/ CycTabConfig

SpecCyc == CycInit /\ [][CycNext]_vars

(* C14: every store-change notification triggers a full settings reload    *)
(* before any tab is updated, and within one reload cycle the              *)
(* configurations pushed to all tabs are computed from one and the same    *)
(* settings snapshot, also when a further notification arrives while the   *)
(* cycle is in progress.                                                   *)
Orig_C14 ==
    \A i \in 1..Len(cycles) :
        /\ cycles[i].pc \in {"get", "assign"} =>
              \A t \in CycTabs : ~cycles[i].pushed[t].present
        /\ \A t, u \in CycTabs :
              (cycles[i].pushed[t].present /\ cycles[i].pushed[u].present) =>
                  cycles[i].pushed[t].cache = cycles[i].pushed[u].cache

\* the rules of the store that the add-site form created for the page
CycRulesForPage ==
    {i \in 1..Len(store.autoModeConfigs) :
        Includes(ExtHost, store.autoModeConfigs[i].domain)}

(* C16: a domain rule created through the popup's add-site form lives in   *)
(* the profile that the orchestrator evaluates: after the store change is  *)
(* processed, an active, non-audible tab whose hostname contains the added *)
(* domain is configured with that rule's fps.                              *)
Orig_C16 ==
    (/\ cycles # <<>>
     /\ \A i \in 1..Len(cycles) : cycles[i].pc = "done"
     /\ CycRulesForPage # {})
        => \A t \in CycTabs, i \in CycRulesForPage :
              cycles[Len(cycles)].pushed[t].config.value = store.autoModeConfigs[i].fps

(***************************************************************************)
(* Preset cycling: the cycle-preset command of the background              *)
(* (background.ts 943-971) and the popup's shortcut (popup.ts 877-886,     *)
(* 524-529).  Indices are 0-based as in the code.                          *)
(***************************************************************************)
MaxCycles == 7

\* background.ts 31-72
DEFAULT_PRESETS ==
    <<[id |-> "eco", fps |-> 30], [id |-> "balanced", fps |-> 60],
      [id |-> "performance", fps |-> 120], [id |-> "gaming", fps |-> 144],
      [id |-> "ultra", fps |-> 240]>>

\* the cursor stopping at the last preset
nextPresetIndex_Saturating(index, length) == Min(index + 1, length - 1)

\* (index + 1) % presets.length (background.ts 945; popup.ts 880)
nextPresetIndex(index, length) == (index + 1) % length

\* Array.prototype.findIndex(p => p.fps === currentFps): -1 when none
findPresetIndex(presets, currentFps) ==
    IF \E i \in 1..Len(presets) : presets[i].fps = currentFps
    THEN (CHOOSE i \in 1..Len(presets) :
             /\ presets[i].fps = currentFps
             /\ \A j \in 1..(i - 1) : presets[j].fps # currentFps) - 1
    ELSE -1

\* `this.settingsCache.presets || DEFAULT_PRESETS` with the cache loaded as
\* `data.presets ?? DEFAULT_PRESETS` (background.ts 190, 944)
backgroundPresets(stored) == DEFAULT_PRESETS

\* `data.presets || []` (popup.ts 152)
popupPresets(stored) == IF stored = "default" THEN DEFAULT_PRESETS ELSE <<>>

\* who cycles; whether the store has a presets key; whether there is an
\* active profile, and whether its settings have a globalConfig
PresetEnvs ==
    [who : {"background", "popup"}, stored : {"unset", "default"},
     profile : {"none", "with", "bare"}]

PresetStartFps == {30, 45, 60, 240}

PresetInit ==
    /\ IdleCfg /\ IdleExt /\ IdleLim /\ IdleRaf /\ IdleSus /\ IdleCyc /\ IdleDeb /\ IdleRel
    /\ IdleAi /\ IdleMore
    /\ presetEnv \in PresetEnvs
    /\ currentPresetIndex = 0
    /\ appliedFps \in PresetStartFps
    /\ presetLog = <<[index |-> 0, fps |-> appliedFps]>>

\* cycleFpsPreset (background.ts 943-960): the cursor moves, then the FPS
\* of the preset is written to the active profile or to globalConfig; the
\* assignment of line 950 throws when the profile has no globalConfig
cycleFpsPreset ==
    /\ presetEnv.who = "background"
    /\ Len(presetLog) <= MaxCycles
    /\ LET presets == backgroundPresets(presetEnv.stored)
           index == nextPresetIndex(currentPresetIndex, Len(presets))
           fps == IF presetEnv.profile = "bare" THEN appliedFps
                  ELSE presets[index + 1].fps
       IN  /\ currentPresetIndex' = index
           /\ appliedFps' = fps
           /\ presetLog' = Append(presetLog, [index |-> index, fps |-> fps])
    /\ UNCHANGED <<presetEnv, cfgVars, extVars, limVars, rafVars, susVars, preOthers>>

\* cyclePresets, applyPreset and saveSiteSettings (popup.ts 877-886,
\* 524-529, 494-512); with an empty list the index is NaN and nothing is
\* applied
cyclePresets ==
    /\ presetEnv.who = "popup"
    /\ Len(presetLog) <= MaxCycles
    /\ LET presets == popupPresets(presetEnv.stored)
           currentIndex == findPresetIndex(presets, appliedFps)
           fps == IF presets = <<>> THEN appliedFps
                  ELSE presets[nextPresetIndex(currentIndex, Len(presets)) + 1].fps
       IN  /\ appliedFps' = fps
           /\ presetLog' = Append(presetLog, [index |-> currentPresetIndex, fps |-> fps])
    /\ UNCHANGED <<currentPresetIndex, presetEnv, cfgVars, extVars, limVars, rafVars,
                   susVars, preOthers>>

PresetNext == cycleFpsPreset \/ cyclePresets

SpecPreset == PresetInit /\ [][PresetNext]_vars

MaxDebCalls == 4
MaxDebTime == 9

\* the waits, in units of 100 ms
DebWaits == {2, 4}

\* the arguments of a call: the input event of the text field
DebArgs == {1, 2}

\* clearTimeout that clears nothing
clearTimeout_Noop(table, id) == table

\* clearTimeout(timeout): the timer of that id, if it is still pending
clearTimeout(table, id) == {t \in table : t.id # id}

DebInit ==
    /\ IdleCfg /\ IdleExt /\ IdleLim /\ IdleRaf /\ IdleSus /\ IdleCyc /\ IdlePre /\ IdleRel
    /\ IdleAi /\ IdleMore
    /\ \E wait \in DebWaits : debounced = [wait |-> wait, timeout |-> 0, nextId |-> 1]
    /\ debTimers = {}
    /\ debClock = 0
    /\ debLog = <<>>

\* a call of the returned function (part_011 71-74)
DebCall ==
    /\ Len(SelectSeq(debLog, LAMBDA e : e.kind = "call")) < MaxDebCalls
    /\ \E args \in DebArgs :
          /\ debTimers' = clearTimeout(debTimers, debounced.timeout)
                              \cup {[id |-> debounced.nextId,
                                     due |-> debClock + debounced.wait, args |-> args]}
          /\ debLog' = Append(debLog, [kind |-> "call", at |-> debClock, args |-> args])
    /\ debounced' = [debounced EXCEPT !.timeout = debounced.nextId, !.nextId = @ + 1]
    /\ UNCHANGED <<debClock, cfgVars, extVars, limVars, rafVars, susVars, debOthers>>

\* a timer fires: `() => func(...args)`
DebFire ==
    /\ \E t \in debTimers :
          /\ t.due = debClock
          /\ debTimers' = debTimers \ {t}
          /\ debLog' = Append(debLog, [kind |-> "run", at |-> debClock, args |-> t.args])
    /\ UNCHANGED <<debounced, debClock, cfgVars, extVars, limVars, rafVars, susVars,
                   debOthers>>

\* 100 ms pass with no timer due
DebTick ==
    /\ debClock < MaxDebTime
    /\ \A t \in debTimers : t.due > debClock
    /\ debClock' = debClock + 1
    /\ UNCHANGED <<debounced, debTimers, debLog, cfgVars, extVars, limVars, rafVars,
                   susVars, debOthers>>

DebNext == DebCall \/ DebFire \/ DebTick

SpecDeb == DebInit /\ [][DebNext]_vars

(* C18: func runs only once no further call has occurred for wait ms.      *)
(* Every run of func comes right after the last call of a burst, wait      *)
(* after it and with its arguments, so a burst gives exactly one run;      *)
(* after a call exactly one timer is pending, due wait after that call,    *)
(* whatever timers earlier calls had set; and nothing is pending after     *)
(* the run.                                                                *)
Thm_C18 ==
    /\ \A j \in 1..Len(debLog) :
          debLog[j].kind = "run" =>
              /\ j > 1
              /\ debLog[j - 1].kind = "call"
              /\ debLog[j].args = debLog[j - 1].args
              /\ debLog[j].at = debLog[j - 1].at + debounced.wait
    /\ (debLog # <<>> /\ debLog[Len(debLog)].kind = "call") =>
          /\ debTimers = {[id |-> debounced.timeout,
                           due |-> debLog[Len(debLog)].at + debounced.wait,
                           args |-> debLog[Len(debLog)].args]}
          /\ debClock <= debLog[Len(debLog)].at + debounced.wait
    /\ (debLog = <<>> \/ debLog[Len(debLog)].kind = "run") => debTimers = {}

\* a burst of three calls less than wait apart, with different arguments,
\* and the one run that follows it
Wit_C18 ==
    /\ Len(debLog) = 4
    /\ debLog[1].kind = "call" /\ debLog[2].kind = "call" /\ debLog[3].kind = "call"
    /\ debLog[4].kind = "run"
    /\ debLog[1].at < debLog[2].at /\ debLog[2].at < debLog[3].at
    /\ debLog[2].at - debLog[1].at < debounced.wait
    /\ debLog[3].at - debLog[2].at < debounced.wait
    /\ debLog[1].args = 1 /\ debLog[2].args = 1 /\ debLog[3].args = 2
    /\ debLog[4].args = 2
    /\ debLog[4].at = debLog[3].at + debounced.wait

(***************************************************************************)
(* The release script (support/release.js).  A version is the triple       *)
(* <<major, minor, patch>>; of the two version files the model keeps the   *)
(* version they hold, in the working tree, in git's index and in HEAD.     *)
(* Every statement that can throw is one step, and whether it throws is    *)
(* the environment's choice; a git command throws whenever git cannot run  *)
(* in the directory.                                                       *)
(***************************************************************************)
RelVersions == {<<1, 0, 0>>, <<0, 9, 9>>, <<2, 3, 4>>}

RelTypes == {"patch", "minor", "major", "beta"}

\* semver.inc(version, releaseType) on a plain version (line 20)
semverInc(version, releaseType) ==
    IF releaseType = "major" THEN <<version[1] + 1, 0, 0>>
    ELSE IF releaseType = "minor" THEN <<version[1], version[2] + 1, 0>>
    ELSE <<version[1], version[2], version[3] + 1>>

RelFiles(version) == [package |-> version, manifest |-> version]

RelInit ==
    /\ IdleCfg /\ IdleExt /\ IdleLim /\ IdleRaf /\ IdleSus /\ IdleCyc /\ IdlePre /\ IdleDeb
    /\ IdleAi /\ IdleMore
    /\ \E releaseType \in RelTypes :
          release = [pc |-> "start", releaseType |-> releaseType, oldVersion |-> <<>>,
                     newVersion |-> <<>>, failedAt |-> "none", committed |-> FALSE,
                     tagged |-> FALSE, exit |-> -1]
    /\ \E version \in RelVersions, gitWorks \in BOOLEAN :
          repo = [work |-> RelFiles(version), index |-> RelFiles(version),
                  head |-> RelFiles(version), tags |-> {}, pushedHead |-> RelFiles(version),
                  pushedTags |-> {}, gitWorks |-> gitWorks]

RelUnchanged == UNCHANGED <<cfgVars, extVars, limVars, rafVars, susVars, relOthers>>

\* a statement of the try block throws: control goes to the catch (line 46)
RelThrow(step) ==
    /\ release' = [release EXCEPT !.pc = "catch", !.failedAt = step]
    /\ repo' = repo

\* lines 7-11
CheckReleaseType ==
    /\ release.pc = "start"
    /\ release' = IF release.releaseType \in {"patch", "minor", "major"}
                  THEN [release EXCEPT !.pc = "readPackage"]
                  ELSE [release EXCEPT !.pc = "exited", !.exit = 1]
    /\ repo' = repo
    /\ RelUnchanged

\* lines 18-20
ReadPackage ==
    /\ release.pc = "readPackage"
    /\ \/ /\ release' = [release EXCEPT
                            !.pc = "writePackage",
                            !.oldVersion = repo.work.package,
                            !.newVersion = semverInc(repo.work.package, release.releaseType)]
          /\ repo' = repo
       \/ RelThrow("readPackage")
    /\ RelUnchanged

\* lines 25-26
WritePackage ==
    /\ release.pc = "writePackage"
    /\ \/ /\ release' = [release EXCEPT !.pc = "readManifest"]
          /\ repo' = [repo EXCEPT !.work.package = release.newVersion]
       \/ RelThrow("writePackage")
    /\ RelUnchanged

\* line 30
ReadManifest ==
    /\ release.pc = "readManifest"
    /\ \/ /\ release' = [release EXCEPT !.pc = "writeManifest"]
          /\ repo' = repo
       \/ RelThrow("readManifest")
    /\ RelUnchanged

\* lines 31-32
WriteManifest ==
    /\ release.pc = "writeManifest"
    /\ \/ /\ release' = [release EXCEPT !.pc = "gitAdd"]
          /\ repo' = [repo EXCEPT !.work.manifest = release.newVersion]
       \/ RelThrow("writeManifest")
    /\ RelUnchanged

\* line 37: git add package.json src/manifest.json
GitAdd ==
    /\ release.pc = "gitAdd"
    /\ \/ /\ repo.gitWorks
          /\ release' = [release EXCEPT !.pc = "gitCommit"]
          /\ repo' = [repo EXCEPT !.index = repo.work]
       \/ RelThrow("gitAdd")
    /\ RelUnchanged

\* line 38: git commit
GitCommit ==
    /\ release.pc = "gitCommit"
    /\ \/ /\ repo.gitWorks
          /\ release' = [release EXCEPT !.pc = "gitTag", !.committed = TRUE]
          /\ repo' = [repo EXCEPT !.head = repo.index]
       \/ RelThrow("gitCommit")
    /\ RelUnchanged

\* line 39: git tag
GitTag ==
    /\ release.pc = "gitTag"
    /\ \/ /\ repo.gitWorks
          /\ release' = [release EXCEPT !.pc = "gitPush", !.tagged = TRUE]
          /\ repo' = [repo EXCEPT !.tags = @ \cup {release.newVersion}]
       \/ RelThrow("gitTag")
    /\ RelUnchanged

\* line 40: git push
GitPush ==
    /\ release.pc = "gitPush"
    /\ \/ /\ repo.gitWorks
          /\ release' = [release EXCEPT !.pc = "gitPushTags"]
          /\ repo' = [repo EXCEPT !.pushedHead = repo.head]
       \/ RelThrow("gitPush")
    /\ RelUnchanged

\* lines 41-44: git push --tags, then the script ends
GitPushTags ==
    /\ release.pc = "gitPushTags"
    /\ \/ /\ repo.gitWorks
          /\ release' = [release EXCEPT !.pc = "exited", !.exit = 0]
          /\ repo' = [repo EXCEPT !.pushedTags = repo.tags]
       \/ RelThrow("gitPushTags")
    /\ RelUnchanged

\* `git checkout -- <paths>`: the files of the working tree are replaced by
\* their content in the index
gitCheckoutPaths(r) == [r EXCEPT !.work = r.index]

\* lines 47-50: the catch block.  When the checkout itself throws, the
\* error is uncaught and node exits with status 1.
Rollback ==
    /\ release.pc = "catch"
    /\ release' = [release EXCEPT !.pc = "exited", !.exit = 1]
    /\ repo' = IF repo.gitWorks THEN gitCheckoutPaths(repo) ELSE repo
    /\ RelUnchanged

RelNext ==
    \/ CheckReleaseType \/ ReadPackage \/ WritePackage \/ ReadManifest \/ WriteManifest
    \/ GitAdd \/ GitCommit \/ GitTag \/ GitPush \/ GitPushTags \/ Rollback

SpecRel == RelInit /\ [][RelNext]_vars

(* C19: when any step of the release script fails (reading or writing a    *)
(* manifest, git add, commit, tag or push), the two version files are      *)
(* reverted to their last-committed state and the process exits with a     *)
(* non-zero status; a commit or tag that already succeeded is not undone.  *)
Orig_C19 ==
    (release.pc = "exited" /\ release.failedAt # "none") =>
        /\ release.exit # 0
        /\ repo.work = repo.head
        /\ release.committed => repo.head = RelFiles(release.newVersion)
        /\ release.tagged => release.newVersion \in repo.tags

(***************************************************************************)
(* The recommendation list of the AI engine (part_011 275, 289-293,        *)
(* 545-576, 588-662, 828-901).  Of a recommendation the model keeps its    *)
(* id, as the parts it is built from, and metadata.createdAt.  Time is in  *)
(* units of 15 days, so the 30 days of cleanup are 2 units.                *)
(***************************************************************************)
MaxAiOps == 4
MaxAiTime == 3

\* `.slice(0, 50)` (line 562)
maxRecommendations == 50

\* 30 * 24 * 60 * 60 * 1000 ms (line 634)
cleanupCutoff == 2

\* the list chrome.storage holds when the engine starts: none, or the 49
\* most recent ones kept by an earlier run
AiStoredLists ==
    {<<>>, [i \in 1..49 |-> [id |-> <<"stored", "", i>>, createdAt |-> 0]]}

\* what the analyses find: the sites with an average of more than 15 jank
\* frames, and the number of insights of the daily analysis (953-980)
AiEnvs ==
    [engine : {ExtEngine}, problematicSites : {{}, {"game.com"}}, insights : 0..2]

AiInit ==
    /\ IdleCfg /\ IdleExt /\ IdleLim /\ IdleRaf /\ IdleSus
    /\ IdleCyc /\ IdlePre /\ IdleDeb /\ IdleRel /\ IdleMore
    /\ recommendations \in AiStoredLists
    /\ aiEnv \in AiEnvs
    /\ aiNow = 0
    /\ aiOps = 0

AiUnchanged == UNCHANGED <<cfgVars, extVars, limVars, rafVars, susVars, aiOthers>>

AiCall ==
    /\ aiOps < MaxAiOps
    /\ aiOps' = aiOps + 1
    /\ UNCHANGED <<aiEnv, aiNow>>
    /\ AiUnchanged

\* storeRecommendation (573-576)
storeRecommendation(list, recommendation) == Append(list, recommendation)

\* processPerformanceData (444-491): a recommendation is stored when the
\* data shows more than 15 jank frames or under 30 FPS (478-480, 877-901)
processPerformanceData ==
    /\ AiCall
    /\ \E jankFrames \in {0, 20} :
          recommendations' =
             IF ~isReady(aiEnv.engine) \/ jankFrames <= 15 THEN recommendations
             ELSE storeRecommendation(recommendations,
                     [id |-> <<"perf_issue", "game.com", aiNow>>, createdAt |-> aiNow])

\* generateRecommendations (828-875): batteryAwareness is never raised
\* above its initial 0, so the battery recommendation is always made
generateRecommendations(env, now) ==
    <<[id |-> <<"battery_awareness", "", now>>, createdAt |-> now]>>
       \o (IF env.problematicSites = {} THEN <<>>
           ELSE <<[id |-> <<"performance", "game.com", now>>, createdAt |-> now]>>)

\* lines 553-557
RECURSIVE addNew(_, _)
addNew(list, new) ==
    IF new = <<>> THEN list
    ELSE addNew(IF \E i \in 1..Len(list) : list[i].id = Head(new).id
                THEN list ELSE Append(list, Head(new)),
                Tail(new))

\* `.sort((a, b) => b.metadata.createdAt - a.metadata.createdAt)` (561):
\* the sort is stable, so the result is the entries created at `newest`,
\* in their order in the list, then those created before, down to time 0
RECURSIVE sortByCreatedAt(_, _)
sortByCreatedAt(list, newest) ==
    IF newest < 0 THEN <<>>
    ELSE SelectSeq(list, LAMBDA rec : rec.createdAt = newest)
            \o sortByCreatedAt(list, newest - 1)

\* Array.prototype.slice(0, n)
sliceTo(list, n) == SubSeq(list, 1, Min(n, Len(list)))

\* performAnalysis (545-568)
performAnalysis ==
    /\ AiCall
    /\ recommendations' =
          IF ~isReady(aiEnv.engine) THEN recommendations
          ELSE sliceTo(sortByCreatedAt(
                          addNew(recommendations, generateRecommendations(aiEnv, aiNow)),
                          aiNow),
                       maxRecommendations)

RECURSIVE storeInsights(_, _, _)
storeInsights(list, n, now) ==
    IF n = 0 THEN list
    ELSE storeInsights(storeRecommendation(list, [id |-> <<"daily", "", Len(list)>>,
                                                  createdAt |-> now]),
                       n - 1, now)

\* performDailyAnalysis (590-626): one stored recommendation per insight
performDailyAnalysis ==
    /\ AiCall
    /\ recommendations' =
          IF ~isReady(aiEnv.engine) THEN recommendations
          ELSE storeInsights(recommendations, aiEnv.insights, aiNow)

\* cleanup (631-661)
cleanup ==
    /\ AiCall
    /\ recommendations' =
          SelectSeq(recommendations, LAMBDA rec : rec.createdAt > aiNow - cleanupCutoff)

\* 15 days pass
AiTick ==
    /\ aiNow < MaxAiTime
    /\ aiNow' = aiNow + 1
    /\ UNCHANGED <<recommendations, aiEnv, aiOps>>
    /\ AiUnchanged

AiNext ==
    \/ processPerformanceData \/ performAnalysis \/ performDailyAnalysis \/ cleanup
    \/ AiTick

SpecAi == AiInit /\ [][AiNext]_vars

(* C20: the AI recommendation backlog never holds more than 50 entries,    *)
(* after any sequence of storeRecommendation, processPerformanceData,      *)
(* performAnalysis, performDailyAnalysis and cleanup calls.                *)
Orig_C20 == Len(recommendations) <= maxRecommendations

(***************************************************************************)
(* The learning data of the AI engine (part_011 444-491, 665-677,          *)
(* 982-990).  A LearningData object is shared by reference between the     *)
(* map and the calls that hold it, so the objects live in learnHeap and    *)
(* the map holds their numbers.  Of a performance sample the model keeps   *)
(* a sequence number and its jank frames; of a contextual factor, the      *)
(* sample it was derived from and whether the tab was classified a game.   *)
(***************************************************************************)
MaxReports == 3

\* `performanceHistory.length > 100` (463)
maxPerformanceHistory == 100

\* `contextualFactors.length > 50` (477)
maxContextualFactors == 50

LearnDomains == {"game.com", "news.com"}

LearnSample(seq, jankFrames) == [seq |-> seq, jankFrames |-> jankFrames]

\* lines 468-474
contextualFactor(performanceData, domain) ==
    [seq |-> performanceData.seq, isGaming |-> domain = "game.com"]

\* createNewLearningData (665-677)
createNewLearningData == [performanceHistory |-> <<>>, contextualFactors |-> <<>>]

\* the object of game.com written by an earlier run, holding n samples and
\* the factors of the last k of them
LearnStoredObject(n, k) ==
    [performanceHistory |-> [i \in 1..n |-> LearnSample(i, 0)],
     contextualFactors |->
        [i \in 1..k |-> contextualFactor(LearnSample(n - k + i, 0), "game.com")]]

LearnStoredHeaps ==
    {<<>>, <<LearnStoredObject(99, 49)>>, <<LearnStoredObject(100, 50)>>}

\* Object.fromEntries(this.learningData.entries()) (984)
learningEntries(heap, map) ==
    [d \in LearnDomains |-> IF map[d] = 0 THEN "none" ELSE heap[map[d]]]

LearnInit ==
    /\ IdleCfg /\ IdleExt /\ IdleLim /\ IdleRaf /\ IdleSus
    /\ IdleCyc /\ IdlePre /\ IdleDeb /\ IdleRel /\ IdleAi /\ IdleRestLearn
    /\ learnEngine \in {ExtEngine, [ExtEngine EXCEPT !.initialized = FALSE]}
    /\ learnHeap \in LearnStoredHeaps
    /\ learningDataMap =
          [d \in LearnDomains |-> IF d = "game.com" /\ learnHeap # <<>> THEN 1 ELSE 0]
    /\ learnStore = learningEntries(learnHeap, learningDataMap)
    /\ learnInflight = {}
    /\ learnOps = 0
    /\ learnLast = [op |-> "none"]

LearnUnchanged == UNCHANGED <<cfgVars, extVars, limVars, rafVars, susVars, learnOthers>>

\* Array.prototype.shift that removes the last element instead
shift_Pop(list) == SubSeq(list, 1, Len(list) - 1)

\* Array.prototype.shift
shift(list) == Tail(list)

\* push, then shift when the list is longer than cap (460-465, 476-479)
pushCapped(list, entry, cap) ==
    IF Len(list) + 1 > cap THEN shift(Append(list, entry)) ELSE Append(list, entry)

\* lines 460-479 on one LearningData object
learnFrom(data, performanceData, domain) ==
    [performanceHistory |->
        pushCapped(data.performanceHistory, performanceData, maxPerformanceHistory),
     contextualFactors |->
        pushCapped(data.contextualFactors, contextualFactor(performanceData, domain),
                   maxContextualFactors)]

\* lines 484-485: learningData.set(domain, learningData); saveLearningData()
LearnSet(heap, domain, obj) ==
    /\ learningDataMap' = [learningDataMap EXCEPT ![domain] = obj]
    /\ learnStore' = learningEntries(heap, learningDataMap')

\* processPerformanceData up to its first await (444-481): the object of
\* the domain, or a new one, takes the sample; with more than 15 jank
\* frames the call awaits generatePerformanceRecommendation first
LearnReportWith(domain, performanceData, obj, heap) ==
    /\ learnHeap' = [heap EXCEPT ![obj] = learnFrom(heap[obj], performanceData, domain)]
    /\ learnLast' = [op |-> "report", domain |-> domain, obj |-> obj,
                     sample |-> performanceData, before |-> heap[obj],
                     after |-> learnHeap'[obj]]
    /\ IF performanceData.jankFrames > 15
       THEN /\ learnInflight' = learnInflight \cup {[domain |-> domain, obj |-> obj]}
            /\ UNCHANGED <<learningDataMap, learnStore, recommendations>>
       ELSE /\ LearnSet(learnHeap', domain, obj)
            /\ UNCHANGED <<learnInflight, recommendations>>

LearnReport ==
    /\ learnOps < MaxReports
    /\ learnOps' = learnOps + 1
    /\ \E domain \in LearnDomains, jankFrames \in {0, 20} :
          IF ~isReady(learnEngine)
          THEN UNCHANGED <<learnHeap, learningDataMap, learnStore, learnInflight,
                           learnLast, recommendations>>
          ELSE IF learningDataMap[domain] # 0
          THEN LearnReportWith(domain, LearnSample(maxPerformanceHistory + learnOps + 1, jankFrames),
                               learningDataMap[domain], learnHeap)
          ELSE LearnReportWith(domain, LearnSample(maxPerformanceHistory + learnOps + 1, jankFrames),
                               Len(learnHeap) + 1, Append(learnHeap, createNewLearningData))
    /\ UNCHANGED learnEngine
    /\ LearnUnchanged

\* the rest of a call that had to recommend (481-485, 877-901)
LearnReportDone ==
    /\ \E call \in learnInflight :
          /\ learnInflight' = learnInflight \ {call}
          /\ recommendations' =
                storeRecommendation(recommendations,
                   [id |-> <<"perf_issue", call.domain, aiNow>>, createdAt |-> aiNow])
          /\ LearnSet(learnHeap, call.domain, call.obj)
    /\ UNCHANGED <<learnEngine, learnHeap, learnOps, learnLast>>
    /\ LearnUnchanged

LearnNext == LearnReport \/ LearnReportDone

SpecLearn == LearnInit /\ [][LearnNext]_vars

\* list after entry was pushed under a cap: entry is last, and the head of
\* before is gone exactly when before was already full
DroppedOldest(before, entry, after, cap) ==
    after = IF Len(before) < cap THEN before \o <<entry>> ELSE Tail(before) \o <<entry>>

(* C21: for every domain, after any sequence of performance reports, the   *)
(* performanceHistory holds at most 100 samples and the contextualFactors  *)
(* at most 50, and a report that exceeds a cap drops the oldest entry.     *)
Thm_C21 ==
    /\ \A d \in LearnDomains :
          learningDataMap[d] # 0 =>
             /\ Len(learnHeap[learningDataMap[d]].performanceHistory) <= 100
             /\ Len(learnHeap[learningDataMap[d]].contextualFactors) <= 50
    /\ learnLast.op = "report" =>
          /\ DroppedOldest(learnLast.before.performanceHistory, learnLast.sample,
                           learnLast.after.performanceHistory, 100)
          /\ DroppedOldest(learnLast.before.contextualFactors,
                           [seq |-> learnLast.sample.seq,
                            isGaming |-> learnLast.domain = "game.com"],
                           learnLast.after.contextualFactors, 50)

\* a report reached a domain whose two lists were full
Wit_C21 ==
    /\ learnLast.op = "report"
    /\ Len(learnLast.before.performanceHistory) = 100
    /\ Len(learnLast.before.contextualFactors) = 50
    /\ learningDataMap[learnLast.domain] = learnLast.obj
    /\ learnOps >= 2

\* the samples of the reports are those numbered above the stored ones
LearnReported(sample) == sample.seq > maxPerformanceHistory

(* C39: every performance report processed while the engine is ready adds  *)
(* its sample to the performanceHistory of its domain: once no call is in  *)
(* flight, every reported sample is in the object the map holds for some   *)
(* domain, also when two reports for an unseen domain overlapped.          *)
Orig_C39 ==
    learnInflight = {} =>
       \A obj \in 1..Len(learnHeap) :
          \A i \in 1..Len(learnHeap[obj].performanceHistory) :
             LearnReported(learnHeap[obj].performanceHistory[i]) =>
                \E d \in LearnDomains : learningDataMap[d] = obj

(***************************************************************************)
(* The heavy-page flag.  The content script sends PAGE_IS_HEAVY            *)
(* (content.ts 438, part_010 91); background.ts receives it in             *)
(* handleRuntimeMessage (721-729, 769-796), the background script of       *)
(* part_008 in its own listener (63-74).                                   *)
(***************************************************************************)
MaxFlagMsgs == 3

FlagBuilds == {"background.ts", "part_008"}

FlagUrls == {"https://game.com/play", "https://news.com/"}

FlagInit ==
    /\ IdleCfg /\ IdleExt /\ IdleLim /\ IdleRaf /\ IdleSus
    /\ IdleCyc /\ IdlePre /\ IdleDeb /\ IdleRel /\ IdleAi /\ IdleRestFlag
    /\ flagBuild \in FlagBuilds
    /\ heavyHostsStore = <<>>
    /\ flagMsgs = <<>>

FlagUnchanged == UNCHANGED <<cfgVars, extVars, limVars, rafVars, susVars, flagOthers>>

\* Array.prototype.includes
includesHost(list, host) == \E k \in 1..Len(list) : list[k] = host

\* the number of times host is in list
RECURSIVE Occurrences(_, _)
Occurrences(list, host) ==
    IF list = <<>> THEN 0
    ELSE (IF Head(list) = host THEN 1 ELSE 0) + Occurrences(Tail(list), host)

\* chrome.runtime.sendMessage({ type: 'PAGE_IS_HEAVY' }) from a page at url
PageIsHeavy ==
    /\ Len(flagMsgs) < MaxFlagMsgs
    /\ \E url \in FlagUrls :
          flagMsgs' = Append(flagMsgs, [url |-> url, pc |-> "sent", heavyHosts |-> <<>>,
                                        listed |-> 0])
    /\ UNCHANGED <<flagBuild, heavyHostsStore>>
    /\ FlagUnchanged

\* handling is over: the message keeps how often its host was in the
\* stored list at that moment
FlagHandled(i, stored) ==
    [flagMsgs EXCEPT ![i].pc = "handled",
                     ![i].listed = Occurrences(stored, Hostname(flagMsgs[i].url))]

\* background.ts: the switch of handleRuntimeMessage has no case for
\* PAGE_IS_HEAVY, the default branch logs at most (769-796); the listener
\* answers { success: true } (721-724)
handleRuntimeMessage ==
    /\ flagBuild = "background.ts"
    /\ \E i \in 1..Len(flagMsgs) :
          /\ flagMsgs[i].pc = "sent"
          /\ flagMsgs' = FlagHandled(i, heavyHostsStore)
    /\ UNCHANGED <<flagBuild, heavyHostsStore>>
    /\ FlagUnchanged

\* part_008 63-67: the listener up to the answer of storage.local.get
FlagGet ==
    /\ flagBuild = "part_008"
    /\ \E i \in 1..Len(flagMsgs) :
          /\ flagMsgs[i].pc = "sent"
          /\ flagMsgs' = [flagMsgs EXCEPT ![i].pc = "read",
                                           ![i].heavyHosts = heavyHostsStore]
    /\ UNCHANGED <<flagBuild, heavyHostsStore>>
    /\ FlagUnchanged

\* part_008 68-71: push and storage.local.set of the array that was read
FlagPut ==
    /\ flagBuild = "part_008"
    /\ \E i \in 1..Len(flagMsgs) :
          /\ flagMsgs[i].pc = "read"
          /\ heavyHostsStore' =
                IF ~includesHost(flagMsgs[i].heavyHosts, Hostname(flagMsgs[i].url))
                THEN Append(flagMsgs[i].heavyHosts, Hostname(flagMsgs[i].url))
                ELSE heavyHostsStore
          /\ flagMsgs' = FlagHandled(i, heavyHostsStore')
    /\ UNCHANGED flagBuild
    /\ FlagUnchanged

FlagNext == PageIsHeavy \/ handleRuntimeMessage \/ FlagGet \/ FlagPut

SpecFlag == FlagInit /\ [][FlagNext]_vars

(* C22: after the background has handled a PAGE_IS_HEAVY message of a      *)
(* page, the hostname of the sender tab is in the persisted heavyHosts     *)
(* list, and it is there at most once.                                     *)
Orig_C22 ==
    \A i \in 1..Len(flagMsgs) : flagMsgs[i].pc = "handled" => flagMsgs[i].listed = 1

(***************************************************************************)
(* The popup asking the background for the AI recommendations (popup.ts    *)
(* 271-292, background.ts 721-729, 769-796, part_011 573-585).  Time is in *)
(* days here, and a recommendation is stale after 7 of them.               *)
(***************************************************************************)
MaxAskOps == 2
AskStart == 8

\* 7 * 24 * 60 * 60 * 1000 ms (part_011 583)
staleAfter == 7

\* getRecommendations (part_011 581-585)
getRecommendations(list, now) == SelectSeq(list, LAMBDA rec : now - rec.createdAt < staleAfter)

AskRec(kind, createdAt) == [id |-> <<kind, "game.com", createdAt>>, createdAt |-> createdAt]

\* the lists the engine holds when the popup opens
AskLists ==
    {<<>>, <<AskRec("perf_issue", 7)>>, <<AskRec("performance", 0)>>,
     <<AskRec("performance", 0), AskRec("perf_issue", 7)>>}

\* what resolves the popup's sendMessage: the argument of sendResponse, or
\* undefined when the channel was closed before the async listener called it
AskResponses == {[defined |-> FALSE], [defined |-> TRUE, success |-> TRUE]}

AskInit ==
    /\ IdleCfg /\ IdleExt /\ IdleLim /\ IdleRaf /\ IdleSus
    /\ IdleCyc /\ IdlePre /\ IdleDeb /\ IdleRel /\ IdleRestAsk
    /\ aiEnv = "idle" /\ aiNow = 0 /\ aiOps = 0
    /\ recommendations \in AskLists
    /\ askNow \in AskStart..(AskStart + 1)
    /\ askPopup = [pc |-> "closed"]
    /\ askOps = 0

AskUnchanged == UNCHANGED <<cfgVars, extVars, limVars, rafVars, susVars, askOthers>>

\* popup.ts 276: chrome.runtime.sendMessage({ type: 'GET_AI_RECOMMENDATIONS' })
loadAIRecommendations ==
    /\ askPopup.pc = "closed"
    /\ askPopup' = [pc |-> "sent"]
    /\ UNCHANGED <<recommendations, askNow, askOps>>
    /\ AskUnchanged

\* background.ts 721-729, 769-796: the request reaches the default branch
\* of handleRuntimeMessage, and the listener calls sendResponse({ success: true })
AskHandle ==
    /\ askPopup.pc = "sent"
    /\ \E response \in AskResponses :
          askPopup' = [pc |-> "answered", response |-> response,
                       current |-> getRecommendations(recommendations, askNow)]
    /\ UNCHANGED <<recommendations, askNow, askOps>>
    /\ AskUnchanged

\* `response?.recommendations || []` (popup.ts 277)
recommendationsOf(response) ==
    IF response.defined /\ "recommendations" \in DOMAIN response
    THEN response.recommendations ELSE <<>>

\* popup.ts 277-285
AskReceive ==
    /\ askPopup.pc = "answered"
    /\ askPopup' = [askPopup EXCEPT !.pc = "shown"] @@
                   [aiRecommendations |-> recommendationsOf(askPopup.response)]
    /\ UNCHANGED <<recommendations, askNow, askOps>>
    /\ AskUnchanged

\* the engine stores a recommendation meanwhile (part_011 573-576)
AskStore ==
    /\ askOps < MaxAskOps
    /\ askOps' = askOps + 1
    /\ recommendations' =
          storeRecommendation(recommendations, AskRec("daily", askNow))
    /\ UNCHANGED <<askNow, askPopup>>
    /\ AskUnchanged

\* a day passes
AskTick ==
    /\ askNow < AskStart + 2
    /\ askNow' = askNow + 1
    /\ UNCHANGED <<recommendations, askPopup, askOps>>
    /\ AskUnchanged

AskNext == loadAIRecommendations \/ AskHandle \/ AskReceive \/ AskStore \/ AskTick

SpecAsk == AskInit /\ [][AskNext]_vars

(* C23: a GET_AI_RECOMMENDATIONS request of the popup is answered with a   *)
(* response of the form {recommendations: [...]} that carries the          *)
(* recommendations of the AI engine that are not stale.                    *)
Orig_C23 ==
    askPopup.pc \in {"answered", "shown"} =>
       /\ askPopup.response.defined
       /\ "recommendations" \in DOMAIN askPopup.response
       /\ askPopup.response.recommendations = askPopup.current

(***************************************************************************)
(* The data migration at startup (background.ts 87, 107-120, 127-218,      *)
(* 1062-1099).  Of the store and the settings cache the model keeps the    *)
(* three fields the migration reads and writes.                            *)
(***************************************************************************)
MaxStartups == 2

\* `const currentVersion = 2` (1063)
currentVersion == 2

MigPresets == {"undefined", "empty", "DEFAULT_PRESETS", "custom"}
MigStatistics == {"undefined", "zeroed", "counted"}

\* the stores a startup can find: migrationVersion 0 stands for no value
MigStores ==
    [presets : MigPresets, statistics : MigStatistics, migrationVersion : 0..2]

\* `private settingsCache: SettingsCache = {}` (87)
MigEmptyCache == [presets |-> "undefined", statistics |-> "undefined", migrationVersion |-> 0]

\* loadAndCacheSettings (130-203): presets ?? DEFAULT_PRESETS,
\* statistics ?? { zeroes }, migrationVersion ?? 1
migLoaded(data) ==
    [presets |-> IF data.presets = "undefined" THEN "DEFAULT_PRESETS" ELSE data.presets,
     statistics |-> IF data.statistics = "undefined" THEN "zeroed" ELSE data.statistics,
     migrationVersion |-> IF data.migrationVersion = 0 THEN 1 ELSE data.migrationVersion]

MigInit ==
    /\ IdleCfg /\ IdleExt /\ IdleLim /\ IdleRaf /\ IdleSus
    /\ IdleCyc /\ IdlePre /\ IdleDeb /\ IdleRel /\ IdleAi /\ IdleRestMig
    /\ migStore \in MigStores
    /\ migCache = MigEmptyCache
    /\ migRun = [startup |-> 1, pc |-> "load", writes |-> 0, began |-> migStore]

MigUnchanged == UNCHANGED <<cfgVars, extVars, limVars, rafVars, susVars, migOthers>>

MigGoto(pc) == migRun' = [migRun EXCEPT !.pc = pc]

MigWrite(pc) == migRun' = [migRun EXCEPT !.pc = pc, !.writes = @ + 1]

\* initialize, line 112: loadAndCacheSettings; a rejected storage.local.get
\* is caught at 215 and leaves the cache as it was
MigLoad ==
    /\ migRun.pc = "load"
    /\ \E getWorks \in BOOLEAN :
          migCache' = IF getWorks THEN migLoaded(migStore) ELSE migCache
    /\ MigGoto("check")
    /\ UNCHANGED migStore
    /\ MigUnchanged

\* `storedVersion = this.settingsCache.migrationVersion || 1`
storedVersion(cache) == IF cache.migrationVersion = 0 THEN 1 ELSE cache.migrationVersion

\* `!this.settingsCache.presets || this.settingsCache.presets.length === 0` (1081)
presetsMissing(cache) == cache.presets \in {"undefined", "empty"}

\* migrateDataIfNeeded 1063-1072 and migrateToV2 1081
MigCheck ==
    /\ migRun.pc = "check"
    /\ MigGoto(IF storedVersion(migCache) >= currentVersion THEN "started"
               ELSE IF presetsMissing(migCache) THEN "presets"
               ELSE "statistics")
    /\ UNCHANGED <<migStore, migCache>>
    /\ MigUnchanged

\* line 1082: storage.local.set({ presets: DEFAULT_PRESETS })
MigSeedPresets ==
    /\ migRun.pc = "presets"
    /\ migStore' = [migStore EXCEPT !.presets = "DEFAULT_PRESETS"]
    /\ MigWrite("statistics")
    /\ UNCHANGED migCache
    /\ MigUnchanged

\* lines 1087-1098
MigSeedStatistics ==
    /\ migRun.pc = "statistics"
    /\ IF migCache.statistics = "undefined"
       THEN /\ migStore' = [migStore EXCEPT !.statistics = "zeroed"]
            /\ MigWrite("version")
       ELSE /\ MigGoto("version")
            /\ UNCHANGED migStore
    /\ UNCHANGED migCache
    /\ MigUnchanged

\* line 1074: storage.local.set({ migrationVersion: currentVersion })
MigSetVersion ==
    /\ migRun.pc = "version"
    /\ migStore' = [migStore EXCEPT !.migrationVersion = currentVersion]
    /\ MigWrite("started")
    /\ UNCHANGED migCache
    /\ MigUnchanged

\* the service worker is started again
MigRestart ==
    /\ migRun.pc = "started"
    /\ migRun.startup < MaxStartups
    /\ migCache' = MigEmptyCache
    /\ migRun' = [startup |-> migRun.startup + 1, pc |-> "load", writes |-> 0,
                  began |-> migStore]
    /\ UNCHANGED migStore
    /\ MigUnchanged

MigNext ==
    \/ MigLoad \/ MigCheck \/ MigSeedPresets \/ MigSeedStatistics \/ MigSetVersion
    \/ MigRestart

SpecMig == MigInit /\ [][MigNext]_vars

(* C24: after a startup on a store whose migrationVersion is behind 2, the *)
(* store holds the default presets if it had none, a zeroed statistics     *)
(* object if it had none, and migrationVersion 2; a later startup makes no *)
(* migration write.                                                        *)
Orig_C24 ==
    /\ (migRun.pc = "started" /\ migRun.began.migrationVersion < 2) =>
          /\ migRun.began.presets \in {"undefined", "empty"} =>
                migStore.presets = "DEFAULT_PRESETS"
          /\ migRun.began.statistics = "undefined" => migStore.statistics = "zeroed"
          /\ migStore.migrationVersion = 2
    /\ (migRun.startup > 1 /\ migRun.began.migrationVersion = 2) => migRun.writes = 0

(***************************************************************************)
(* The statistics and their debounced save (background.ts 677-708), with   *)
(* the storage.onChanged listener that reloads the settings cache          *)
(* (715-718, 127-218).  Of the statistics the model keeps the counter      *)
(* totalOptimizations.  Time is in seconds and starts at 1, so that 0 can  *)
(* stand for no timer; a timer fires when it is due.                       *)
(***************************************************************************)
MaxIncrements == 2
MaxStatChanges == 1
MaxStatTime == 12

\* `}, 5000)` (697)
saveWait == 5

StatInit ==
    /\ IdleCfg /\ IdleExt /\ IdleLim /\ IdleRaf /\ IdleSus
    /\ IdleCyc /\ IdlePre /\ IdleDeb /\ IdleRel /\ IdleAi /\ IdleRestStat
    /\ statStore \in 0..1
    /\ statCache = statStore
    /\ statTimer = 0
    /\ statLoads = <<>>
    /\ statClock = 1
    /\ statMade = [increments |-> 0, changes |-> 0, base |-> statStore]

StatUnchanged == UNCHANGED <<cfgVars, extVars, limVars, rafVars, susVars, statOthers>>

\* no pending timer is overdue
StatTimerNotDue == statTimer = 0 \/ statClock < statTimer

\* updateStatistics (677-693), as called at 300, 539, 822 and 840
updateStatistics ==
    /\ StatTimerNotDue
    /\ statMade.increments < MaxIncrements
    /\ statClock + saveWait <= MaxStatTime
    /\ statCache' = statCache + 1
    /\ statTimer' = statClock + saveWait
    /\ statMade' = [statMade EXCEPT !.increments = @ + 1]
    /\ UNCHANGED <<statStore, statLoads, statClock>>
    /\ StatUnchanged

\* storage.onChanged (715-718): a loadAndCacheSettings call begins
StatOnChanged(loads) == Append(loads, [pc |-> "get", statistics |-> 0])

\* the timer of debouncedSaveStatistics fires (695-697); the store tells
\* its listeners when the value has changed
debouncedSaveStatistics ==
    /\ statTimer # 0 /\ statClock = statTimer
    /\ statStore' = statCache
    /\ statTimer' = 0
    /\ statLoads' = IF statStore' # statStore THEN StatOnChanged(statLoads) ELSE statLoads
    /\ UNCHANGED <<statCache, statClock, statMade>>
    /\ StatUnchanged

\* the popup or the options page writes another setting
StatSettingChanged ==
    /\ StatTimerNotDue
    /\ statMade.changes < MaxStatChanges
    /\ statMade' = [statMade EXCEPT !.changes = @ + 1]
    /\ statLoads' = StatOnChanged(statLoads)
    /\ UNCHANGED <<statCache, statStore, statTimer, statClock>>
    /\ StatUnchanged

\* loadAndCacheSettings: storage.local.get(null) answers (128)
StatLoadGet ==
    /\ StatTimerNotDue
    /\ \E i \in 1..Len(statLoads) :
          /\ statLoads[i].pc = "get"
          /\ \A j \in 1..(i - 1) : statLoads[j].pc # "get"
          /\ statLoads' = [statLoads EXCEPT ![i] = [pc |-> "assign", statistics |-> statStore]]
    /\ UNCHANGED <<statCache, statStore, statTimer, statClock, statMade>>
    /\ StatUnchanged

\* loadAndCacheSettings: this.settingsCache = { ..., statistics: data.statistics ?? ... } (130-203)
StatLoadAssign ==
    /\ StatTimerNotDue
    /\ statLoads # <<>>
    /\ Head(statLoads).pc = "assign"
    /\ statCache' = Head(statLoads).statistics
    /\ statLoads' = Tail(statLoads)
    /\ UNCHANGED <<statStore, statTimer, statClock, statMade>>
    /\ StatUnchanged

\* a second passes
StatTick ==
    /\ StatTimerNotDue
    /\ statClock < MaxStatTime
    /\ statClock' = statClock + 1
    /\ UNCHANGED <<statCache, statStore, statTimer, statLoads, statMade>>
    /\ StatUnchanged

StatNext ==
    \/ updateStatistics \/ debouncedSaveStatistics \/ StatSettingChanged
    \/ StatLoadGet \/ StatLoadAssign \/ StatTick

SpecStat == StatInit /\ [][StatNext]_vars

\* timers fire, storage answers and time passes
SpecStatFair ==
    /\ SpecStat
    /\ WF_vars(debouncedSaveStatistics) /\ WF_vars(StatLoadGet)
    /\ WF_vars(StatLoadAssign) /\ WF_vars(StatTick)

(* C25: statistics increments are persisted through the debounced save:    *)
(* no increment writes to the store by itself, and every increment of a    *)
(* counter is eventually reflected in the statistics held by the store.    *)
Orig_C25 ==
    /\ [][statMade'.increments # statMade.increments => statStore' = statStore]_vars
    /\ \A n \in 1..MaxIncrements :
          (statMade.increments >= n) ~> (statStore >= statMade.base + n)

(* C36: the statistics counter held in memory never decreases: no step,   *)
(* a reload of the settings included, takes it below its value.            *)
Orig_C36 == [][statCache' >= statCache]_vars

(***************************************************************************)
(* getConfigForUrl and the state of the service (SpecCfg).                 *)
(***************************************************************************)

(* C26: getConfigForUrl is pure: computing a configuration changes no      *)
(* state of the orchestrator, the statistics of the settings cache         *)
(* included, and schedules no store write.                                 *)
Orig_C26 == [][cfgStats' = cfgStats]_vars

(***************************************************************************)
(* The per-tab records and the removal of a tab (background.ts 400-447,    *)
(* 731-753, 798-852).  Of the two maps the model keeps the keys.  A        *)
(* handler is suspended at each await on a host call; chrome.tabs.get      *)
(* answers for the tab as it is when it answers, while the answer to       *)
(* chrome.tabs.sendMessage may reach the service after the onRemoved event *)
(* of the tab it was sent to.                                              *)
(***************************************************************************)
MaxGoneOps == 3
MaxGoneTabs == 2

GoneTabIds == 1..MaxGoneTabs

GoneInit ==
    /\ IdleCfg /\ IdleExt /\ IdleLim /\ IdleRaf /\ IdleSus
    /\ IdleCyc /\ IdlePre /\ IdleDeb /\ IdleRel /\ IdleAi /\ IdleRestGone
    /\ goneTabs = [t \in GoneTabIds |-> "open"]
    /\ goneLastActivated \in SUBSET {1}
    /\ goneAnalytics \in SUBSET {1}
    /\ goneCalls = {}
    /\ goneEnv \in [gamingMode : BOOLEAN]
    /\ goneOps = 0

GoneUnchanged == UNCHANGED <<cfgVars, extVars, limVars, rafVars, susVars, goneOthers>>

\* an event or a message of tab t is delivered to the service
GoneEvent(t) ==
    /\ goneOps < MaxGoneOps
    /\ goneOps' = goneOps + 1
    /\ goneTabs[t] # "removed"
    /\ UNCHANGED <<goneTabs, goneEnv>>
    /\ GoneUnchanged

\* tabs.onActivated (731-741)
GoneActivated ==
    \E t \in GoneTabIds :
       /\ GoneEvent(t)
       /\ goneTabs[t] = "open"
       /\ goneLastActivated' = goneLastActivated \cup {t}
       /\ UNCHANGED <<goneAnalytics, goneCalls>>

\* updateTabConfig up to `await this.getSystemInfo()` (400-409): the call
\* holds the analytics record it found
updateTabConfigCall(t, analytics) ==
    [handler |-> "updateTabConfig", tab |-> t, pc |-> "getSystemInfo",
     tabAnalytics |-> t \in analytics, sent |-> FALSE]

\* tabs.onUpdated (743-747)
GoneUpdated ==
    \E t \in GoneTabIds :
       /\ GoneEvent(t)
       /\ goneTabs[t] = "open"
       /\ goneCalls' = goneCalls \cup {updateTabConfigCall(t, goneAnalytics)}
       /\ UNCHANGED <<goneLastActivated, goneAnalytics>>

\* updateTabConfig 411-436: the configuration is computed and sent
GoneSend ==
    /\ \E call \in goneCalls :
          /\ call.pc = "getSystemInfo"
          /\ goneCalls' = (goneCalls \ {call}) \cup
                {[call EXCEPT !.pc = "sendMessage", !.sent = goneTabs[call.tab] = "open"]}
    /\ UNCHANGED <<goneTabs, goneLastActivated, goneAnalytics, goneEnv, goneOps>>
    /\ GoneUnchanged

\* `if (tabAnalytics) { ...; this.tabAnalytics.set(tab.id, tabAnalytics) }` (438-442)
putBack(analytics, call) ==
    IF call.tabAnalytics THEN analytics \cup {call.tab} ELSE analytics

\* updateTabConfig after `await chrome.tabs.sendMessage` (436-447): the
\* call rejects when the tab was gone at the send, and may reject when the
\* page did not receive the message; a rejection is caught at 447
GoneSent ==
    /\ \E call \in goneCalls, resolves \in BOOLEAN :
          /\ call.pc = "sendMessage"
          /\ resolves => call.sent
          /\ goneCalls' = goneCalls \ {call}
          /\ goneAnalytics' = IF resolves THEN putBack(goneAnalytics, call)
                              ELSE goneAnalytics
    /\ UNCHANGED <<goneTabs, goneLastActivated, goneEnv, goneOps>>
    /\ GoneUnchanged

\* handlePerformanceData and handleGameDetection up to chrome.tabs.get
\* (798-803, 825-830): with a record the map is set at once (814, 839)
GoneMessage(t, handler) ==
    /\ GoneEvent(t)
    /\ IF t \in goneAnalytics
       THEN /\ goneCalls' =
                  IF handler = "handleGameDetection" /\ goneEnv.gamingMode
                  THEN goneCalls \cup {[handler |-> handler, tab |-> t, pc |-> "getForUpdate",
                                        tabAnalytics |-> TRUE, sent |-> FALSE]}
                  ELSE goneCalls
            /\ UNCHANGED goneAnalytics
       ELSE /\ goneCalls' = goneCalls \cup {[handler |-> handler, tab |-> t, pc |-> "get",
                                             tabAnalytics |-> FALSE, sent |-> FALSE]}
            /\ UNCHANGED goneAnalytics
    /\ UNCHANGED goneLastActivated

handlePerformanceData == \E t \in GoneTabIds : GoneMessage(t, "handlePerformanceData")

handleGameDetection == \E t \in GoneTabIds : GoneMessage(t, "handleGameDetection")

\* chrome.tabs.get answers (802, 828): for a tab that is gone the promise
\* rejects and the handler ends; else createTabAnalytics and the set of
\* line 814 or 839 follow
GoneGot ==
    /\ \E call \in goneCalls :
          /\ call.pc = "get"
          /\ IF goneTabs[call.tab] # "open"
             THEN /\ goneCalls' = goneCalls \ {call}
                  /\ UNCHANGED goneAnalytics
             ELSE /\ goneAnalytics' = goneAnalytics \cup {call.tab}
                  /\ goneCalls' = (goneCalls \ {call}) \cup
                        (IF call.handler = "handleGameDetection" /\ goneEnv.gamingMode
                         THEN {[call EXCEPT !.pc = "getForUpdate", !.tabAnalytics = TRUE]}
                         ELSE {})
    /\ UNCHANGED <<goneTabs, goneLastActivated, goneEnv, goneOps>>
    /\ GoneUnchanged

\* handleGameDetection 852-855: chrome.tabs.get, then updateTabConfig
GoneGotForUpdate ==
    /\ \E call \in goneCalls :
          /\ call.pc = "getForUpdate"
          /\ goneCalls' = (goneCalls \ {call}) \cup
                (IF goneTabs[call.tab] # "open" THEN {}
                 ELSE {updateTabConfigCall(call.tab, goneAnalytics)})
    /\ UNCHANGED <<goneTabs, goneLastActivated, goneAnalytics, goneEnv, goneOps>>
    /\ GoneUnchanged

\* the user closes tab t
GoneClose ==
    /\ \E t \in GoneTabIds :
          /\ goneTabs[t] = "open"
          /\ goneTabs' = [goneTabs EXCEPT ![t] = "closed"]
    /\ UNCHANGED <<goneLastActivated, goneAnalytics, goneCalls, goneEnv, goneOps>>
    /\ GoneUnchanged

\* tabs.onRemoved (750-753)
GoneOnRemoved ==
    /\ \E t \in GoneTabIds :
          /\ goneTabs[t] = "closed"
          /\ goneTabs' = [goneTabs EXCEPT ![t] = "removed"]
          /\ goneLastActivated' = goneLastActivated \ {t}
          /\ goneAnalytics' = goneAnalytics \ {t}
    /\ UNCHANGED <<goneCalls, goneEnv, goneOps>>
    /\ GoneUnchanged

GoneNext ==
    \/ GoneActivated \/ GoneUpdated \/ GoneSend \/ GoneSent
    \/ handlePerformanceData \/ handleGameDetection \/ GoneGot \/ GoneGotForUpdate
    \/ GoneClose \/ GoneOnRemoved

SpecGone == GoneInit /\ [][GoneNext]_vars

(* C27: once the tab-removed event of a tab id has been handled, the       *)
(* orchestrator holds neither an analytics record nor a last-activated     *)
(* timestamp for that id, then and in every later state, also when a       *)
(* handler for the tab was suspended at a host call at the removal.        *)
Orig_C27 ==
    \A t \in GoneTabIds :
       goneTabs[t] = "removed" => t \notin goneAnalytics /\ t \notin goneLastActivated

(***************************************************************************)
(* The confidence formulas of the AI engine (part_011 359-439, 737-753),   *)
(* applied to drawn arguments.  Confidences are in hundredths.             *)
(***************************************************************************)
MaxSamples == 22
MaxSettings == 5

\* classification confidences, in hundredths, some outside [0, 1]
ConfClassConfs == {0, 80, 81, 100, 500}

ConfAnalytics ==
    {NoAnalytics} \cup
    {[GameAnalytics EXCEPT !.classType = type, !.classConf = conf] :
        type \in {"unknown", "game"}, conf \in ConfClassConfs}

\* learning data with n performance samples and k FPS settings
ConfLearningData(n, k) ==
    [domain |-> "game.com", fpsSettings |-> [i \in 1..k |-> 60],
     performanceHistory |-> [i \in 1..n |-> [jankFrames |-> 0, cpuUsage |-> 40]],
     contextualFactors |-> <<>>]

ConfNone == [done |-> FALSE, learned |-> 0, heuristic |-> 0]

ConfInit ==
    /\ IdleCfg /\ IdleExt /\ IdleLim /\ IdleRaf /\ IdleSus
    /\ IdleCyc /\ IdlePre /\ IdleDeb /\ IdleRel /\ IdleAi /\ IdleRestConf
    /\ confIn \in [samples : 0..MaxSamples, settings : 0..MaxSettings,
                    tabAnalytics : ConfAnalytics, url : CfgUrls,
                    performanceData : CfgPerf, systemInfo : CfgSystems]
    /\ confOut = ConfNone

\* getOptimalFps 327-349: the learned confidence for a domain with
\* learning data, the heuristic one for a domain without
ConfScore ==
    /\ ~confOut.done
    /\ confOut' =
          [done |-> TRUE,
           learned |-> calculateConfidence(ConfLearningData(confIn.samples, confIn.settings),
                                           confIn.tabAnalytics),
           heuristic |-> getHeuristicRecommendation(confIn.url, confIn.tabAnalytics,
                            confIn.performanceData, confIn.systemInfo).confidence]
    /\ UNCHANGED confIn
    /\ UNCHANGED <<cfgVars, extVars, limVars, rafVars, susVars, confOthers>>

ConfNext == ConfScore

SpecConf == ConfInit /\ [][ConfNext]_vars

(* C28: every confidence produced by the scoring formulas of the AI        *)
(* engine, the learned-data confidence and the heuristic one, lies within  *)
(* [0, 1], for all non-negative sample counts and all classification       *)
(* confidences.                                                            *)
Thm_C28 ==
    confOut.done =>
       /\ 0 <= confOut.learned /\ confOut.learned <= 100
       /\ 0 <= confOut.heuristic /\ confOut.heuristic <= 100

\* the learned confidence was computed from arguments whose parts add up
\* to more than 1
Wit_C28 ==
    /\ confOut.done
    /\ confIn.samples >= 20 /\ confIn.settings >= 4
    /\ confIn.tabAnalytics.present /\ confIn.tabAnalytics.classConf > 80
    /\ confOut.learned = 100

(***************************************************************************)
(* The add-site form of the popup (popup.ts 149, 614-646, 680-682).        *)
(***************************************************************************)
MaxAdds == 3

\* what the user types into the form
AddInputs ==
    {"", "   ", "not a domain", "example.com", " Example.COM ", "www.example.com",
     "example-.com", "news.site", "localhost:3000"}

AddInit ==
    /\ IdleCfg /\ IdleExt /\ IdleLim /\ IdleRaf /\ IdleSus
    /\ IdleCyc /\ IdlePre /\ IdleDeb /\ IdleRel /\ IdleAi /\ IdleRestAdd
    /\ addList \in {<<>>, <<[domain |-> "example.com", fps |-> 60]>>}
    /\ addStore = addList
    /\ addLast = [op |-> "none"]
    /\ addOps = 0

\* `this.autoModeConfigs.some(c => c.domain === newDomain)` (630)
domainExists(list, newDomain) == \E i \in 1..Len(list) : list[i].domain = newDomain

\* handleAddSite (614-641) with saveAutoModeList (680-682)
handleAddSite ==
    /\ addOps < MaxAdds
    /\ addOps' = addOps + 1
    /\ \E input \in AddInputs :
          LET newDomain == ToLowerCase(Trim(input))
              shown == IF newDomain = "" THEN "nothing"
                       ELSE IF ~isValidDomain(newDomain) THEN "invalid"
                       ELSE IF domainExists(addList, newDomain) THEN "exists"
                       ELSE "added"
          IN  /\ addLast' = [op |-> "add", input |-> input, shown |-> shown,
                             list |-> addList, stored |-> addStore]
              /\ IF shown = "added"
                 THEN /\ addList' = Append(addList, [domain |-> newDomain, fps |-> 60])
                      /\ addStore' = addList'
                 ELSE UNCHANGED <<addList, addStore>>
    /\ UNCHANGED <<cfgVars, extVars, limVars, rafVars, susVars, addOthers>>

AddNext == handleAddSite

SpecAdd == AddInit /\ [][AddNext]_vars

\* the character of str at position i
CharAt(str, i) == SubSeq(str, i, i)

\* str is a host name of two or more labels separated by dots: letters,
\* digits and inner hyphens in each label, letters only in the last
WellFormedDomain(str) ==
    /\ Len(str) > 0
    /\ \A i \in 1..Len(str) :
          LET c == CharAt(str, i)
          IN  /\ IsLetter(c) \/ IsDigit(c) \/ c = "-" \/ c = "."
              /\ c \in {"-", "."} =>
                    /\ i > 1 /\ i < Len(str)
                    /\ CharAt(str, i - 1) \notin {"-", "."} \/ c = "-"
                    /\ c = "." => CharAt(str, i + 1) \notin {"-", "."}
                    /\ c = "-" => CharAt(str, i - 1) # "." /\ CharAt(str, i + 1) # "."
    /\ \E k \in 2..(Len(str) - 2) :
          /\ CharAt(str, k) = "."
          /\ \A i \in (k + 1)..Len(str) : IsLetter(CharAt(str, i))

(* C29: an add-site submission whose domain is malformed (the empty        *)
(* string, a string with spaces) or already in the auto-mode list is       *)
(* rejected with the in-memory list and the persisted autoModeConfigs      *)
(* unchanged; a well-formed new domain such as example.com is appended.    *)
Orig_C29 ==
    addLast.op = "add" =>
       LET newDomain == ToLowerCase(Trim(addLast.input))
       IN  IF WellFormedDomain(newDomain) /\ ~domainExists(addLast.list, newDomain)
           THEN /\ addList = Append(addLast.list, [domain |-> newDomain, fps |-> 60])
                /\ addStore = addList
           ELSE addList = addLast.list /\ addStore = addLast.stored

(***************************************************************************)
(* SpecSch: the mutation observer reports substantial content changes to   *)
(* the AdaptiveScheduler (content.ts 125-133, 590-594).  Time is counted   *)
(* in units of 500 ms; a timer callback runs when the clock reaches its    *)
(* due time.                                                               *)
(***************************************************************************)
MaxNotifications == 3

MaxSchTime == 10

\* setTimeout(..., 2000) of line 593, in units of 500 ms
resetAfter == 4

SchInit ==
    /\ IdleCfg /\ IdleExt /\ IdleLim /\ IdleRaf /\ IdleSus
    /\ IdleCyc /\ IdlePre /\ IdleDeb /\ IdleRel /\ IdleAi /\ IdleRestSch
    /\ schScheduler = [gameMode |-> FALSE, isVisible |-> TRUE, contentChanged |-> FALSE,
                       longTaskDetected |-> FALSE]
    /\ schTimers = EmptyBag
    /\ schClock = 0
    /\ schNotified = {}

SchUnchanged == UNCHANGED <<cfgVars, extVars, limVars, rafVars, susVars, schOthers>>

\* notifyContentChange (content.ts 590-594)
notifyContentChange ==
    /\ Cardinality(schNotified) < MaxNotifications
    /\ schClock \notin schNotified
    /\ schScheduler' = [schScheduler EXCEPT !.contentChanged = TRUE]
    /\ schTimers' = schTimers (+) SetToBag({schClock + resetAfter})
    /\ schNotified' = schNotified \cup {schClock}
    /\ UNCHANGED schClock
    /\ SchUnchanged

\* the callback of line 593: `() => { this.contentChanged = false; }`
SchTimerFire ==
    /\ \E due \in BagToSet(schTimers) :
          /\ due <= schClock
          /\ schTimers' = schTimers (-) SetToBag({due})
    /\ schScheduler' = [schScheduler EXCEPT !.contentChanged = FALSE]
    /\ UNCHANGED <<schClock, schNotified>>
    /\ SchUnchanged

\* 500 ms pass, no timer being due
SchTick ==
    /\ \A due \in BagToSet(schTimers) : due > schClock
    /\ schClock < MaxSchTime
    /\ schClock' = schClock + 1
    /\ UNCHANGED <<schScheduler, schTimers, schNotified>>
    /\ SchUnchanged

SchNext == notifyContentChange \/ SchTimerFire \/ SchTick

SpecSch == SchInit /\ [][SchNext]_vars

\* the scheduler is in its eager mode: at 60 fps a call 5 ms after the last
\* frame is refused and one 16 ms after it is let through
SchEager ==
    /\ ~shouldScheduleFrame(schScheduler, 5000, 16666)
    /\ shouldScheduleFrame(schScheduler, 16000, 16666)

\* C34 as stated: for 2 seconds after each content-change notification the
\* scheduler is in its eager mode, also when an earlier timer is pending.
Orig_C34 ==
    \A t \in schNotified : (schClock - t < resetAfter) => SchEager

(***************************************************************************)
(* SpecLoop: the background after one store-change notification, with no   *)
(* user action, tab event, message, alarm or command after it.  The        *)
(* listener (background.ts 715-718) reloads the settings and updates every *)
(* tab; getConfigForUrl counts a detected game (line 300) and              *)
(* debouncedSaveStatistics writes the statistics 5 s after the last count  *)
(* (695-697), which the store reports to the same listener.  A reload      *)
(* cycle is taken to end within those 5 s.  The counter is kept as the     *)
(* difference between the cache and the store.                             *)
(***************************************************************************)
MaxLoopTabs == 2

MaxLoopWrites == 3

LoopUrls == {"https://play.steamgames.io/fps", "https://normal-website.com"}

\* the open tabs, each with the answer of line 290-291 for its URL
LoopTabLists ==
    {[i \in DOMAIN urls |->
        [url |-> urls[i],
         isGame |-> UrlParses(urls[i]) /\ isConfidentGame(analyzeUrl(urls[i], NoAnalytics))]] :
     urls \in UNION {[1..n -> LoopUrls] : n \in 0..MaxLoopTabs}}

LoopInit ==
    /\ IdleCfg /\ IdleExt /\ IdleLim /\ IdleRaf /\ IdleSus
    /\ IdleCyc /\ IdlePre /\ IdleDeb /\ IdleRel /\ IdleAi /\ IdleRestLoop
    /\ loopTabs \in LoopTabLists
    /\ loopSettings \in [globalDisabled : BOOLEAN, gameDetection : BOOLEAN,
                          gamingMode : {FALSE}, hasProfile : BOOLEAN]
    /\ loopUnsaved \in 0..1
    /\ loopTimer = (loopUnsaved > 0)
    /\ loopCycles = <<[pc |-> "get", left |-> 0]>>
    /\ loopWrites = 0

LoopUnchanged == UNCHANGED <<cfgVars, extVars, limVars, rafVars, susVars, loopOthers>>

\* loadAndCacheSettings: storage.local.get(null) answers and the cache is
\* replaced (128-203); updateAllTabs queries the tabs (1044)
LoopReload ==
    /\ loopCycles # <<>> /\ Head(loopCycles).pc = "get"
    /\ loopUnsaved' = 0
    /\ loopCycles' = [loopCycles EXCEPT ![1] = [pc |-> "tabs", left |-> Len(loopTabs)]]
    /\ UNCHANGED <<loopTabs, loopSettings, loopTimer, loopWrites>>
    /\ LoopUnchanged

\* getConfigForUrl reaches line 300 for this tab (265, 289-291)
loopCountsGame(tab) ==
    /\ ~loopSettings.globalDisabled /\ loopSettings.hasProfile
    /\ loopSettings.gameDetection \/ loopSettings.gamingMode
    /\ tab.isGame

\* updateTabConfig for one tab (400-450), with updateStatistics (677-693)
LoopTabConfig ==
    /\ loopCycles # <<>> /\ Head(loopCycles).pc = "tabs" /\ Head(loopCycles).left > 0
    /\ LET tab == loopTabs[Head(loopCycles).left]
       IN  /\ loopUnsaved' = IF loopCountsGame(tab) THEN loopUnsaved + 1 ELSE loopUnsaved
           /\ loopTimer' = (loopTimer \/ loopCountsGame(tab))
    /\ loopCycles' = [loopCycles EXCEPT ![1].left = @ - 1]
    /\ UNCHANGED <<loopTabs, loopSettings, loopWrites>>
    /\ LoopUnchanged

\* updateAllTabs returns (1042-1057)
LoopCycleDone ==
    /\ loopCycles # <<>> /\ Head(loopCycles).pc = "tabs" /\ Head(loopCycles).left = 0
    /\ loopCycles' = Tail(loopCycles)
    /\ UNCHANGED <<loopTabs, loopSettings, loopUnsaved, loopTimer, loopWrites>>
    /\ LoopUnchanged

\* the timer fires: storage.local.set({ statistics }) (695-697); the store
\* tells its listeners when the value has changed (715-718)
LoopSave ==
    /\ loopTimer /\ loopCycles = <<>>
    /\ loopTimer' = FALSE
    /\ loopUnsaved' = 0
    /\ loopWrites' = IF loopWrites < MaxLoopWrites THEN loopWrites + 1 ELSE loopWrites
    /\ loopCycles' = IF loopUnsaved # 0 THEN <<[pc |-> "get", left |-> 0]>> ELSE <<>>
    /\ UNCHANGED <<loopTabs, loopSettings>>
    /\ LoopUnchanged

LoopNext == LoopReload \/ LoopTabConfig \/ LoopCycleDone \/ LoopSave

SpecLoop == LoopInit /\ [][LoopNext]_vars

\* the host answers every request and fires every timer
SpecLoopFair ==
    /\ SpecLoop
    /\ WF_vars(LoopReload) /\ WF_vars(LoopTabConfig) /\ WF_vars(LoopCycleDone)
    /\ WF_vars(LoopSave)

\* no listener is in progress and no save is pending
LoopQuiescent == loopCycles = <<>> /\ ~loopTimer

\* C37 as stated: after the notification the background becomes quiescent
\* for good, having written the store fewer than MaxLoopWrites times.
Orig_C37 == <>[](LoopQuiescent /\ loopWrites < MaxLoopWrites)


\* ------------------------------------------------------------------
\* The toggle_fps_limiter command (background.ts 907-921) and the
\* storage.onChanged listener that reloads the cache (715-718)
\* ------------------------------------------------------------------

MaxCommands == 3

\* data.globalDisabled ?? false (132)
globalDisabledOf(data) == IF data = {} THEN FALSE ELSE CHOOSE v \in data : TRUE

TogInit ==
    /\ IdleCfg /\ IdleExt /\ IdleLim /\ IdleRaf /\ IdleSus
    /\ IdleCyc /\ IdlePre /\ IdleDeb /\ IdleRel /\ IdleAi /\ IdleRestTog
    /\ togStore \in {{}, {FALSE}, {TRUE}}
    /\ togCache = globalDisabledOf(togStore)
    /\ togNotifications \in BOOLEAN
    /\ togHandlers = <<>>
    /\ togReloads = <<>>
    /\ togShown = <<>>
    /\ togHandled = 0
    /\ togOrig = globalDisabledOf(togStore)

TogUnchanged == UNCHANGED <<cfgVars, extVars, limVars, rafVars, susVars, togOthers>>

\* handleKeyboardShortcut('toggle_fps_limiter') up to its first await:
\* newState is the negation of the cached flag (910) and is written to the
\* store (911); a write that changes the key runs the onChanged listener
ToggleCommand ==
    /\ togHandled < MaxCommands
    /\ LET newState == ~togCache
       IN  /\ togStore' = {newState}
           /\ togReloads' = IF togStore = {newState} THEN togReloads
                            ELSE Append(togReloads, [pc |-> "get", data |-> {}])
           /\ togHandlers' = Append(togHandlers, newState)
    /\ togHandled' = togHandled + 1
    /\ UNCHANGED <<togCache, togNotifications, togShown, togOrig>>
    /\ TogUnchanged

\* the rest of the handler, after storage.local.set has resolved (913-920)
ToggleNotify ==
    /\ togHandlers # <<>>
    /\ togShown' = IF togNotifications
                   THEN Append(togShown, IF Head(togHandlers) THEN "Disabled" ELSE "Enabled")
                   ELSE togShown
    /\ togHandlers' = Tail(togHandlers)
    /\ UNCHANGED <<togStore, togCache, togNotifications, togReloads, togHandled, togOrig>>
    /\ TogUnchanged

\* loadAndCacheSettings: storage.local.get(null) is answered (128)
TogReloadGet ==
    /\ \E i \in 1..Len(togReloads) :
          /\ togReloads[i].pc = "get"
          /\ \A j \in 1..(i - 1) : togReloads[j].pc = "got"
          /\ togReloads' = [togReloads EXCEPT ![i] = [pc |-> "got", data |-> togStore]]
    /\ UNCHANGED <<togStore, togCache, togNotifications, togHandlers, togShown, togHandled, togOrig>>
    /\ TogUnchanged

\* loadAndCacheSettings: the cache is replaced from the answer (130-132)
TogReloadAssign ==
    /\ togReloads # <<>> /\ Head(togReloads).pc = "got"
    /\ togCache' = globalDisabledOf(Head(togReloads).data)
    /\ togReloads' = Tail(togReloads)
    /\ UNCHANGED <<togStore, togNotifications, togHandlers, togShown, togHandled, togOrig>>
    /\ TogUnchanged

TogNext == ToggleCommand \/ ToggleNotify \/ TogReloadGet \/ TogReloadAssign

SpecTog == TogInit /\ [][TogNext]_vars

\* C38: after two toggle_fps_limiter commands the persisted globalDisabled
\* flag is back at its original value, whether or not the cache was reloaded
\* between them
Orig_C38 == togHandled = 2 => globalDisabledOf(togStore) = togOrig

====
